---- MODULE Spec2Model ----
(***************************************************************************)
(* The formula subsystem of the xl spreadsheet: the formula grammar and    *)
(* its printer, the AST-to-evaluator compiler (formula.Parse and the       *)
(* buildFuncFrom... family), and the lazily typed sheet cell               *)
(* (sheet.Cell) that owns a compiled formula and its bound arguments.      *)
(*                                                                         *)
(* Text is a sequence of one-character strings.  A Go nil pointer, nil     *)
(* slice or nil func is the record Nil.  A Go closure is the record of     *)
(* the variables it captures, and Call interprets it.                      *)
(***************************************************************************)
EXTENDS Integers, Sequences, FiniteSets, TLC

VARIABLES
    expression,   \* formula: the parsed *Expression handed to the compiler
    pc,           \* formula: "parsed" -> "built" -> "called"
    function,     \* formula: the Function returned by Parse
    vb,           \* formula: the VarBin returned by Parse (its Vars)
    consumed,     \* formula: the count returned by the top-level buildFuncFromEquality
    args,         \* formula: the argument array the evaluator is invoked with
    result,       \* formula: the outcome of the invocation
    failing,      \* the operator and function names the evaluation capability rejects
    cells,        \* sheet: cell name -> Cell, for the cells that exist
    panicked,     \* sheet: "" or the panic that ended the program
    last,         \* sheet: what the last operation was and what it returned
    rendered,     \* round trip: the text Expression.String printed
    reparsed,     \* round trip: what formula.Parse made of the printed text
    visitedCells, \* eval.Context: the visitedCells map, as the set of its keys
    ed,           \* termbox: the call of enterEditorMode, its editor and what it returned
    doc           \* app: the document's Sheets, CurrentSheetN and CurrentSheet

formulaVars == <<expression, pc, function, vb, consumed, args, result>>
sheetVars == <<cells, panicked, last>>
roundVars == <<rendered, reparsed>>
uiVars == <<ed, doc>>
vars == <<expression, pc, function, vb, consumed, args, result, failing, cells, panicked, last,
          rendered, reparsed, visitedCells, ed, doc>>

Nil == [nil |-> TRUE]

(***************************************************************************)
(* Bounds of the model.                                                    *)
(***************************************************************************)
\* the number of AST nodes (leaves, signs, parentheses, calls, operators) of a formula
MaxNodes == 5
\* the number of arguments of a function call
MaxArgs == 2
\* the number of references of a variable bin handed to makeLinks on its own
MaxVars == 3
\* the editor: the lines allocated in one call and the bytes they hold, counted
\* together, below which a rune may be typed or a line opened
MaxMemory == 5
\* the application: the sheets a document may hold before one is appended
MaxSheets == 4
\* the editor: how far below one linesCount may be when a key that deletes is pressed
MaxUncounted == 1

(***************************************************************************)
(* Text helpers.                                                           *)
(***************************************************************************)
Digits == <<"0", "1", "2", "3", "4", "5", "6", "7", "8", "9">>
UpperCase == <<"A", "B", "C", "D", "E", "F", "G", "H", "I", "J", "K", "L", "M",
               "N", "O", "P", "Q", "R", "S", "T", "U", "V", "W", "X", "Y", "Z">>
LowerCase == <<"a", "b", "c", "d", "e", "f", "g", "h", "i", "j", "k", "l", "m",
               "n", "o", "p", "q", "r", "s", "t", "u", "v", "w", "x", "y", "z">>

Range(s) == {s[i] : i \in DOMAIN s}

IsDigit(c) == c \in Range(Digits)

DigitVal(c) == (CHOOSE i \in 1..10 : Digits[i] = c) - 1

ToUpper(c) ==
    IF c \in Range(LowerCase)
    THEN UpperCase[CHOOSE i \in 1..26 : LowerCase[i] = c]
    ELSE c

UpperText(s) == [i \in DOMAIN s |-> ToUpper(s[i])]

\* strings.EqualFold on the letters of the model
EqualFold(s, t) == UpperText(s) = UpperText(t)

RECURSIVE Concat(_)
Concat(ss) == IF ss = <<>> THEN <<>> ELSE Head(ss) \o Concat(Tail(ss))

\* the text s[from..] (1-based), empty when from is past the end
From(s, from) == SubSeq(s, from, Len(s))

(***************************************************************************)
(* The AST (formula grammar structs).                                      *)
(***************************************************************************)
NoPrimary ==
    [SubExpression |-> Nil, Number |-> Nil, String |-> Nil, Boolean |-> Nil,
     Func |-> Nil, CellRange |-> Nil]

CellNode(sheet, cell) == [Sheet |-> sheet, Cell |-> cell]
CellRangeNode(cell, cellTo) == [Cell |-> cell, CellTo |-> cellTo]
FuncNode(name, arguments) == [Name |-> name, Arguments |-> arguments]

PrimaryNumber(n) == [NoPrimary EXCEPT !.Number = [num |-> n]]
PrimaryString(s) == [NoPrimary EXCEPT !.String = [str |-> s]]
PrimaryBoolean(b) == [NoPrimary EXCEPT !.Boolean = [bool |-> b]]
PrimaryFunc(f) == [NoPrimary EXCEPT !.Func = f]
PrimaryCellRange(cr) == [NoPrimary EXCEPT !.CellRange = cr]
PrimarySub(eq) == [NoPrimary EXCEPT !.SubExpression = eq]

UnaryNode(op, unary, primary) == [Op |-> op, Unary |-> unary, Primary |-> primary]
MultiplicationNode(unary, op, next) == [Unary |-> unary, Op |-> op, Next |-> next]
AdditionNode(mul, op, next) == [Multiplication |-> mul, Op |-> op, Next |-> next]
ComparisonNode(add, op, next) == [Addition |-> add, Op |-> op, Next |-> next]
EqualityNode(cmp, op, next) == [Comparison |-> cmp, Op |-> op, Next |-> next]
ExpressionNode(eq) == [Equality |-> eq]

NoOp == <<>>

\* a decimal number m * 10^e, kept normalised (no trailing zero in m; zero is 0 * 10^0)
RECURSIVE Normalise(_, _)
Normalise(m, e) ==
    IF m = 0 THEN [m |-> 0, e |-> 0]
    ELSE IF m % 10 = 0 THEN Normalise(m \div 10, e + 1)
    ELSE [m |-> m, e |-> e]

RECURSIVE NatText(_)
NatText(n) == IF n < 10 THEN <<Digits[n + 1]>> ELSE NatText(n \div 10) \o <<Digits[(n % 10) + 1]>>

Zeros(n) == [i \in 1..n |-> "0"]

\* strconv.FormatFloat(f, 'f', -1, 64) of the number m * 10^e
FormatFloat(n) ==
    LET sign == IF n.m < 0 THEN <<"-">> ELSE <<>>
        ds == NatText(IF n.m < 0 THEN 0 - n.m ELSE n.m)
    IN  IF n.e >= 0 THEN sign \o ds \o Zeros(n.e)
        ELSE IF Len(ds) > 0 - n.e
             THEN sign \o SubSeq(ds, 1, Len(ds) + n.e) \o <<".">> \o From(ds, Len(ds) + n.e + 1)
             ELSE sign \o <<"0", ".">> \o Zeros((0 - n.e) - Len(ds)) \o ds

(***************************************************************************)
(* The printer: Expression.Output and Expression.String.                   *)
(***************************************************************************)
OutputTypeSymbol == 0
OutputTypeWhitespace == 1
OutputTypeOperator == 2
OutputTypeNumber == 3
OutputTypeBoolean == 4
OutputTypeString == 5
OutputTypeFunction == 6
OutputTypeSheet == 7
OutputTypeCell == 8

\* one call of the OutputFunc
Of(s, t) == <<[s |-> s, t |-> t]>>

CellOutput(e) ==
    (IF e.Sheet # Nil
     THEN Of(e.Sheet.sheet, OutputTypeSheet) \o Of(<<"!">>, OutputTypeSymbol)
     ELSE <<>>)
    \o Of(e.Cell, OutputTypeCell)

CellRangeOutput(e) ==
    CellOutput(e.Cell)
    \o (IF e.CellTo # Nil
        THEN Of(<<":">>, OutputTypeSymbol) \o CellOutput(e.CellTo)
        ELSE <<>>)

RECURSIVE EqualityOutput(_), ComparisonOutput(_), AdditionOutput(_)
RECURSIVE MultiplicationOutput(_), UnaryOutput(_), PrimaryOutput(_)
RECURSIVE FuncOutput(_), ArgumentsOutput(_)

EqualityOutput(e) ==
    ComparisonOutput(e.Comparison)
    \o (IF e.Op # NoOp /\ e.Next # Nil
        THEN Of(e.Op, OutputTypeOperator) \o EqualityOutput(e.Next)
        ELSE <<>>)

ComparisonOutput(e) ==
    AdditionOutput(e.Addition)
    \o (IF e.Op # NoOp /\ e.Next # Nil
        THEN Of(e.Op, OutputTypeOperator) \o ComparisonOutput(e.Next)
        ELSE <<>>)

AdditionOutput(e) ==
    MultiplicationOutput(e.Multiplication)
    \o (IF e.Op # NoOp /\ e.Next # Nil
        THEN Of(e.Op, OutputTypeOperator) \o AdditionOutput(e.Next)
        ELSE <<>>)

MultiplicationOutput(e) ==
    UnaryOutput(e.Unary)
    \o (IF e.Op # NoOp /\ e.Next # Nil
        THEN Of(e.Op, OutputTypeOperator) \o MultiplicationOutput(e.Next)
        ELSE <<>>)

UnaryOutput(e) ==
    IF e.Primary # Nil
    THEN PrimaryOutput(e.Primary)
    ELSE Of(e.Op, OutputTypeOperator) \o UnaryOutput(e.Unary)

PrimaryOutput(e) ==
    (IF e.SubExpression # Nil
     THEN Of(<<"(">>, OutputTypeSymbol) \o EqualityOutput(e.SubExpression)
          \o Of(<<")">>, OutputTypeSymbol)
     ELSE <<>>)
    \o (IF e.Number # Nil THEN Of(FormatFloat(e.Number.num), OutputTypeNumber)
        ELSE IF e.String # Nil THEN Of(e.String.str, OutputTypeString)
        ELSE IF e.Boolean # Nil
             THEN (IF e.Boolean.bool
                   THEN Of(<<"T", "R", "U", "E">>, OutputTypeBoolean)
                   ELSE Of(<<"F", "A", "L", "S", "E">>, OutputTypeBoolean))
        ELSE IF e.Func # Nil THEN FuncOutput(e.Func)
        ELSE IF e.CellRange # Nil THEN CellRangeOutput(e.CellRange)
        ELSE <<>>)

ArgumentsOutput(as) ==
    IF as = <<>> THEN <<>>
    ELSE EqualityOutput(Head(as)) \o Of(<<",">>, OutputTypeSymbol)
         \o Of(<<" ">>, OutputTypeWhitespace) \o ArgumentsOutput(Tail(as))

FuncOutput(e) ==
    Of(e.Name, OutputTypeFunction) \o Of(<<"(">>, OutputTypeSymbol)
    \o ArgumentsOutput(e.Arguments) \o Of(<<")">>, OutputTypeSymbol)

ExpressionOutput(e) == Of(<<"=">>, OutputTypeSymbol) \o EqualityOutput(e.Equality)

ExpressionString(e) ==
    LET out == ExpressionOutput(e)
    IN  Concat([i \in DOMAIN out |-> out[i].s])

(***************************************************************************)
(* Values (package value) and the evaluation capability.                   *)
(***************************************************************************)
ZeroValue == [t |-> "zero"]
NewDecimalValue(d) == [t |-> "decimal", d |-> d]
NewStringValue(s) == [t |-> "string", s |-> s]
NewBoolValue(b) == [t |-> "bool", b |-> b]
NewLinkValue(l) == [t |-> "link", l |-> l]
\* what the capability returns for an operator or a function it accepts: the
\* application itself, its operands kept in order
ResultValue(op, operands) == [t |-> "result", op |-> op, operands |-> operands]

NewError(msg) == [msg |-> msg]
EvaluationError(op) == [msg |-> "evaluation error", op |-> op]

\* a returned (value.Value, error), or a panic; reads lists the array slots read
Returned(v, reads) == [val |-> v, err |-> Nil, panic |-> "", reads |-> reads]
Failed(err, reads) == [val |-> ZeroValue, err |-> err, panic |-> "", reads |-> reads]
Panicked(msg, reads) == [val |-> ZeroValue, err |-> Nil, panic |-> msg, reads |-> reads]

evalOperator(op, operands, reads) ==
    IF op \in failing THEN Failed(EvaluationError(op), reads)
    ELSE Returned(ResultValue(op, operands), reads)

evalFunc(name, values, reads) ==
    IF name \in failing THEN Failed(EvaluationError(name), reads)
    ELSE Returned(ResultValue(name, values), reads)

(***************************************************************************)
(* The compiler: the buildFuncFrom... family.  Each returns the closure f, *)
(* its consumed count n, and the variable bin after the walk.              *)
(***************************************************************************)
NilFunc == [k |-> "nil"]

Built(f, n, vbin) == [f |-> f, n |-> n, vars |-> vbin]

newVar(cr) == [Cell |-> cr.Cell, CellTo |-> cr.CellTo]

\* a closure of a binary node with its two sub-evaluators exchanged
BinaryFuncSwapped(op, subFunc1, consumedArgs1, subFunc2) ==
    [k |-> "binary", op |-> op, subFunc1 |-> subFunc2,
     consumedArgs1 |-> consumedArgs1, subFunc2 |-> subFunc1]

\* the closure of a binary node
BinaryFunc(op, subFunc1, consumedArgs1, subFunc2) ==
    [k |-> "binary", op |-> op, subFunc1 |-> subFunc1,
     consumedArgs1 |-> consumedArgs1, subFunc2 |-> subFunc2]

\* the closure of a signed Unary
SignFunc(op, subFunc) == [k |-> "sign", op |-> op, subFunc |-> subFunc]

\* the closure of a function call
CallFunc(name, subFunc, consumedArgs) ==
    [k |-> "call", name |-> name, subFuncs |-> subFunc, consumedArgs |-> consumedArgs]

\* a binary node: the count of the pair
BuiltBinary(op, b1, b2) == Built(BinaryFunc(op, b1.f, b1.n, b2.f), b1.n + b2.n, b2.vars)

\* a reference leaf that puts its descriptor at the front of the bin
buildFuncFromCellRangePrepend(cr, vbin) == Built([k |-> "var"], 1, <<newVar(cr)>> \o vbin)

\* the reference leaf
buildFuncFromCellRange(cr, vbin) == Built([k |-> "var"], 1, Append(vbin, newVar(cr)))

\* the literal leaves
buildFuncFromLiteral(p, vbin) ==
    IF p.Boolean # Nil THEN Built([k |-> "bool", bool |-> p.Boolean.bool], 0, vbin)
    ELSE IF p.Number # Nil THEN Built([k |-> "number", num |-> p.Number.num], 0, vbin)
    ELSE Built([k |-> "string", str |-> p.String.str], 0, vbin)

RECURSIVE buildFuncFromEquality(_, _), buildFuncFromComparison(_, _)
RECURSIVE buildFuncFromAddition(_, _), buildFuncFromMultiplication(_, _)
RECURSIVE buildFuncFromUnary(_, _), buildFuncFromArguments(_, _, _, _, _)

\* buildFuncFromEquality once eq.Comparison is built as b1
EqualityBuilt(eq, b1) ==
    IF eq.Next = Nil THEN b1
    ELSE BuiltBinary(eq.Op, b1, buildFuncFromEquality(eq.Next, b1.vars))

buildFuncFromEquality(eq, vbin) ==
    EqualityBuilt(eq, buildFuncFromComparison(eq.Comparison, vbin))

\* buildFuncFromComparison once cmp.Addition is built as b1
ComparisonBuilt(cmp, b1) ==
    IF cmp.Next = Nil THEN b1
    ELSE BuiltBinary(cmp.Op, b1, buildFuncFromComparison(cmp.Next, b1.vars))

buildFuncFromComparison(cmp, vbin) ==
    ComparisonBuilt(cmp, buildFuncFromAddition(cmp.Addition, vbin))

\* buildFuncFromAddition once a.Multiplication is built as b1
AdditionBuilt(a, b1) ==
    IF a.Next = Nil THEN b1
    ELSE BuiltBinary(a.Op, b1, buildFuncFromAddition(a.Next, b1.vars))

buildFuncFromAddition(a, vbin) ==
    AdditionBuilt(a, buildFuncFromMultiplication(a.Multiplication, vbin))

\* buildFuncFromMultiplication once m.Unary is built as b1
MultiplicationBuilt(m, b1) ==
    IF m.Next = Nil THEN b1
    ELSE BuiltBinary(m.Op, b1, buildFuncFromMultiplication(m.Next, b1.vars))

buildFuncFromMultiplication(m, vbin) ==
    MultiplicationBuilt(m, buildFuncFromUnary(m.Unary, vbin))

\* one turn of the loop over u.Primary.Func.Arguments, its argument built as b
ArgumentBuilt(arguments, subFunc, consumedArgs, totalConsumedArgs, b) ==
    buildFuncFromArguments(Tail(arguments), Append(subFunc, b.f),
                           Append(consumedArgs, b.n), totalConsumedArgs + b.n, b.vars)

\* the loop over u.Primary.Func.Arguments: subFunc, consumedArgs and the total so far
buildFuncFromArguments(arguments, subFunc, consumedArgs, totalConsumedArgs, vbin) ==
    IF arguments = <<>>
    THEN [subFunc |-> subFunc, consumedArgs |-> consumedArgs,
          totalConsumedArgs |-> totalConsumedArgs, vars |-> vbin]
    ELSE ArgumentBuilt(arguments, subFunc, consumedArgs, totalConsumedArgs,
                       buildFuncFromEquality(Head(arguments), vbin))

\* the signed Unary, its operand built as b
SignBuilt(op, b) == Built(SignFunc(op, b.f), b.n, b.vars)

\* the function call, its arguments built as l
CallBuilt(name, l) ==
    Built(CallFunc(name, l.subFunc, l.consumedArgs), l.totalConsumedArgs, l.vars)

buildFuncFromUnary(u, vbin) ==
    IF u.Unary # Nil
    THEN SignBuilt(u.Op, buildFuncFromUnary(u.Unary, vbin))
    ELSE IF u.Primary.SubExpression # Nil
    THEN buildFuncFromEquality(u.Primary.SubExpression, vbin)
    ELSE IF u.Primary.Func # Nil
    THEN CallBuilt(u.Primary.Func.Name,
                   buildFuncFromArguments(u.Primary.Func.Arguments, <<>>, <<>>, 0, vbin))
    ELSE IF u.Primary.Boolean # Nil \/ u.Primary.Number # Nil \/ u.Primary.String # Nil
    THEN buildFuncFromLiteral(u.Primary, vbin)
    ELSE buildFuncFromCellRange(u.Primary.CellRange, vbin)

(***************************************************************************)
(* Invoking a compiled Function on an argument slice.                      *)
(***************************************************************************)
\* a slice expression that passes the slice on whole
SliceFromStart(a, n) == a

\* the Go slice expression args[n:], for 0 <= n <= len(args)
SliceFrom(a, n) == SubSeq(a, n + 1, Len(a))

RECURSIVE Call(_, _), CallArguments(_, _, _, _, _, _)

\* a loop that goes on to the next argument after an argument failed
CallArgumentsAll(f, a, i, ca, values, reads) ==
    IF i > Len(f.subFuncs) THEN evalFunc(f.name, values, reads)
    ELSE CallArguments(f, a, i + 1, ca + f.consumedArgs[i],
                       Append(values, Call(f.subFuncs[i], SliceFrom(a, ca)).val),
                       reads \o Call(f.subFuncs[i], SliceFrom(a, ca)).reads)

\* the loop of the function-call closure, from argument i on, ca slots consumed
CallArguments(f, a, i, ca, values, reads) ==
    IF i > Len(f.subFuncs) THEN evalFunc(f.name, values, reads)
    ELSE IF ca > Len(a) THEN Panicked("slice bounds out of range", reads)
    ELSE LET r == Call(f.subFuncs[i], SliceFrom(a, ca))
         IN  IF r.panic # "" THEN Panicked(r.panic, reads \o r.reads)
             ELSE IF r.err # Nil THEN Failed(r.err, reads \o r.reads)
             ELSE CallArguments(f, a, i + 1, ca + f.consumedArgs[i],
                                Append(values, r.val), reads \o r.reads)

Call(f, a) ==
    CASE f.k = "nil" -> Panicked("nil pointer dereference", <<>>)
      [] f.k = "binary" ->
            LET r1 == Call(f.subFunc1, a)
            IN  IF r1.panic # "" THEN r1
                ELSE IF r1.err # Nil THEN Failed(r1.err, r1.reads)
                ELSE IF f.consumedArgs1 > Len(a)
                THEN Panicked("slice bounds out of range", r1.reads)
                ELSE LET r2 == Call(f.subFunc2, SliceFrom(a, f.consumedArgs1))
                     IN  IF r2.panic # "" THEN Panicked(r2.panic, r1.reads \o r2.reads)
                         ELSE IF r2.err # Nil THEN Failed(r2.err, r1.reads \o r2.reads)
                         ELSE evalOperator(f.op, <<r1.val, r2.val>>, r1.reads \o r2.reads)
      [] f.k = "sign" ->
            LET r == Call(f.subFunc, a)
            IN  IF r.panic # "" THEN r
                ELSE IF r.err # Nil THEN Failed(r.err, r.reads)
                ELSE evalOperator(f.op, <<r.val>>, r.reads)
      [] f.k = "call" -> CallArguments(f, a, 1, 0, <<>>, <<>>)
      [] f.k = "bool" -> Returned(NewBoolValue(f.bool), <<>>)
      [] f.k = "number" -> Returned(NewDecimalValue(f.num), <<>>)
      [] f.k = "string" -> Returned(NewStringValue(f.str), <<>>)
      [] f.k = "var" ->
            IF Len(a) = 0 THEN Panicked("too few arguments", <<>>)
            ELSE Returned(a[1], <<a[1]>>)

(***************************************************************************)
(* strconv and decimal, on the texts of the model (decimal syntax with an  *)
(* optional sign, fraction and exponent, and the words inf, infinity and   *)
(* nan; no hexadecimal text, no number out of the range of float64).       *)
(***************************************************************************)
\* the end (exclusive) of the longest run of digits of s that starts at i
RECURSIVE DigitsEnd(_, _)
DigitsEnd(s, i) == IF i <= Len(s) /\ IsDigit(s[i]) THEN DigitsEnd(s, i + 1) ELSE i

RECURSIVE DigitsValue(_)
DigitsValue(ds) ==
    IF ds = <<>> THEN 0
    ELSE 10 * DigitsValue(SubSeq(ds, 1, Len(ds) - 1)) + DigitVal(ds[Len(ds)])

IsSign(c) == c \in {"+", "-"}

\* the decimal number written at s[i..]: mantissa digits, optional fraction and
\* exponent; end is the index after it, ok says a digit was found and that an
\* exponent mark has its digits
ScanNumber(s, i) ==
    LET a == DigitsEnd(s, i)
        dot == a <= Len(s) /\ s[a] = "."
        b == IF dot THEN DigitsEnd(s, a + 1) ELSE a
        intDigits == SubSeq(s, i, a - 1)
        fracDigits == IF dot THEN SubSeq(s, a + 1, b - 1) ELSE <<>>
        hasExp == b <= Len(s) /\ s[b] \in {"e", "E"}
        x == IF hasExp /\ b + 1 <= Len(s) /\ IsSign(s[b + 1]) THEN b + 2 ELSE b + 1
        y == IF hasExp THEN DigitsEnd(s, x) ELSE b
        expVal == IF hasExp /\ y > x
                  THEN (IF s[x - 1] = "-" THEN 0 - 1 ELSE 1) * DigitsValue(SubSeq(s, x, y - 1))
                  ELSE 0
    IN  [ok |-> Len(intDigits) + Len(fracDigits) > 0 /\ (hasExp => y > x),
         end |-> y,
         m |-> DigitsValue(intDigits \o fracDigits),
         e |-> expVal - Len(fracDigits)]

TextInf == <<"I", "N", "F">>
TextInfinity == <<"I", "N", "F", "I", "N", "I", "T", "Y">>
TextNaN == <<"N", "A", "N">>

\* strconv.ParseFloat(v, 64): err is Nil on success
ParseFloat(v) ==
    LET signed == Len(v) > 0 /\ IsSign(v[1])
        body == IF signed THEN Tail(v) ELSE v
        n == ScanNumber(body, 1)
    IN  IF UpperText(body) \in {TextInf, TextInfinity} \/ UpperText(v) = TextNaN
        THEN [err |-> Nil, special |-> TRUE, num |-> Normalise(0, 0)]
        ELSE IF n.ok /\ n.end = Len(body) + 1
        THEN [err |-> Nil, special |-> FALSE,
              num |-> Normalise(IF signed /\ v[1] = "-" THEN 0 - n.m ELSE n.m, n.e)]
        ELSE [err |-> NewError("invalid syntax"), special |-> FALSE, num |-> Normalise(0, 0)]

\* strconv.ParseInt(v, 10, 64)
ParseInt(v) ==
    LET signed == Len(v) > 0 /\ IsSign(v[1])
        body == IF signed THEN Tail(v) ELSE v
    IN  IF Len(body) > 0 /\ DigitsEnd(body, 1) = Len(body) + 1
        THEN [err |-> Nil,
              i |-> IF signed /\ v[1] = "-" THEN 0 - DigitsValue(body) ELSE DigitsValue(body)]
        ELSE [err |-> NewError("invalid syntax"), i |-> 0]

\* strconv.ParseBool(v)
ParseBool(v) ==
    IF v \in {<<"1">>, <<"t">>, <<"T">>, <<"T", "R", "U", "E">>, <<"t", "r", "u", "e">>,
              <<"T", "r", "u", "e">>}
    THEN [err |-> Nil, b |-> TRUE]
    ELSE IF v \in {<<"0">>, <<"f">>, <<"F">>, <<"F", "A", "L", "S", "E">>,
                   <<"f", "a", "l", "s", "e">>, <<"F", "a", "l", "s", "e">>}
    THEN [err |-> Nil, b |-> FALSE]
    ELSE [err |-> NewError("invalid syntax"), b |-> FALSE]

\* decimal.NewFromString(v), its error dropped: the zero Decimal when v is no number
NewFromString(v) ==
    LET f == ParseFloat(v)
    IN  IF f.err = Nil /\ ~f.special THEN f.num ELSE Normalise(0, 0)

(***************************************************************************)
(* The lexer: the regular expression lex, one alternative per token class, *)
(* the first alternative that matches at the front of the text wins.       *)
(***************************************************************************)
Whitespace == {" ", "\t", "\n", "\r"}
\* the character class [A-z], on the alphabet of the model (no backquote)
AzChars == Range(UpperCase) \cup Range(LowerCase) \cup {"[", "\\", "]", "^", "_"}
AzDigitChars == AzChars \cup Range(Digits)
OperatorChars == {"-", "+", "*", "/", "(", ")", "=", "<", ">", ",", ":"}
OperatorPairs == {<<"<", ">">>, <<"<", "=">>, <<">", "=">>}

Token(type, value) == [type |-> type, value |-> value]
EOFToken == Token("EOF", <<>>)

\* the end (exclusive) of the longest run of characters of set that starts at i
RECURSIVE RunEnd(_, _, _)
RunEnd(s, i, set) == IF i <= Len(s) /\ s[i] \in set THEN RunEnd(s, i + 1, set) ELSE i

\* each Match gives the length of the match at the front of b, 0 for none
MatchWhitespace(b) == RunEnd(b, 1, Whitespace) - 1

MatchLeadingEquals(b) == IF b[1] = "=" THEN 1 ELSE 0

MatchOperators(b) ==
    IF Len(b) >= 2 /\ SubSeq(b, 1, 2) \in OperatorPairs THEN 2
    ELSE IF b[1] \in OperatorChars THEN 1
    ELSE 0

\* \d*\.?\d+([eE][-+]?\d+)?
MatchNumber(b) ==
    LET a == DigitsEnd(b, 1)
        frac == a + 1 <= Len(b) /\ b[a] = "." /\ IsDigit(b[a + 1])
        e == IF frac THEN DigitsEnd(b, a + 1) ELSE a
        hasExp == e <= Len(b) /\ b[e] \in {"e", "E"}
        x == IF hasExp /\ e + 1 <= Len(b) /\ IsSign(b[e + 1]) THEN e + 2 ELSE e + 1
        y == IF hasExp THEN DigitsEnd(b, x) ELSE e
    IN  IF e = 1 THEN 0
        ELSE IF hasExp /\ y > x THEN y - 1
        ELSE e - 1

\* "([^"]|"")*" from the opening quote at 1: the end (exclusive) of the match, 0 for none
RECURSIVE StringEnd(_, _)
StringEnd(b, i) ==
    IF i > Len(b) THEN 0
    ELSE IF b[i] # "\"" THEN StringEnd(b, i + 1)
    ELSE IF i + 1 <= Len(b) /\ b[i + 1] = "\"" /\ StringEnd(b, i + 2) # 0
    THEN StringEnd(b, i + 2)
    ELSE i + 1

MatchString(b) == IF b[1] = "\"" /\ StringEnd(b, 2) # 0 THEN StringEnd(b, 2) - 1 ELSE 0

TextTRUE == <<"T", "R", "U", "E">>
TextFALSE == <<"F", "A", "L", "S", "E">>

\* (?i)TRUE|FALSE
MatchBoolean(b) ==
    IF Len(b) >= 4 /\ EqualFold(SubSeq(b, 1, 4), TextTRUE) THEN 4
    ELSE IF Len(b) >= 5 /\ EqualFold(SubSeq(b, 1, 5), TextFALSE) THEN 5
    ELSE 0

\* [A-z0-9]+\(
MatchFuncName(b) ==
    LET e == RunEnd(b, 1, AzDigitChars)
    IN  IF e > 1 /\ e <= Len(b) /\ b[e] = "(" THEN e ELSE 0

\* '([^']|'')*'! from the opening quote at 1: the end (exclusive) of the match, 0 for none
RECURSIVE QuotedSheetEnd(_, _)
QuotedSheetEnd(b, i) ==
    IF i > Len(b) THEN 0
    ELSE IF b[i] # "'" THEN QuotedSheetEnd(b, i + 1)
    ELSE IF i + 1 <= Len(b) /\ b[i + 1] = "'" THEN QuotedSheetEnd(b, i + 2)
    ELSE IF i + 1 <= Len(b) /\ b[i + 1] = "!" THEN i + 2
    ELSE 0

\* ([A-z0-9_]+|'([^']|'')*')!
MatchSheet(b) ==
    LET e == RunEnd(b, 1, AzDigitChars)
    IN  IF e > 1 /\ e <= Len(b) /\ b[e] = "!" THEN e
        ELSE IF b[1] = "'" /\ QuotedSheetEnd(b, 2) # 0 THEN QuotedSheetEnd(b, 2) - 1
        ELSE 0

\* [A-z]+[1-9][0-9]*
MatchCell(b) ==
    LET e == RunEnd(b, 1, AzChars)
    IN  IF e > 1 /\ e <= Len(b) /\ IsDigit(b[e]) /\ b[e] # "0"
        THEN DigitsEnd(b, e + 1) - 1
        ELSE 0

\* the tokens of the text b after toks, or the lexical error
RECURSIVE Lex(_, _)
Lex(b, toks) ==
    LET take(n, type) == Lex(From(b, n + 1), Append(toks, Token(type, SubSeq(b, 1, n))))
    IN  IF b = <<>> THEN [err |-> Nil, toks |-> toks]
        ELSE IF MatchWhitespace(b) > 0 THEN Lex(From(b, MatchWhitespace(b) + 1), toks)
        ELSE IF MatchLeadingEquals(b) > 0 THEN take(MatchLeadingEquals(b), "")
        ELSE IF MatchOperators(b) > 0 THEN take(MatchOperators(b), "Operators")
        ELSE IF MatchNumber(b) > 0 THEN take(MatchNumber(b), "Number")
        ELSE IF MatchString(b) > 0 THEN take(MatchString(b), "String")
        ELSE IF MatchBoolean(b) > 0 THEN take(MatchBoolean(b), "Boolean")
        ELSE IF MatchFuncName(b) > 0 THEN take(MatchFuncName(b), "FuncName")
        ELSE IF MatchSheet(b) > 0 THEN take(MatchSheet(b), "Sheet")
        ELSE IF MatchCell(b) > 0 THEN take(MatchCell(b), "Cell")
        ELSE [err |-> NewError("invalid token"), toks |-> toks]

(***************************************************************************)
(* The Capture methods.                                                    *)
(***************************************************************************)
\* strings.TrimRight(s, c) for a one-character cutset
RECURSIVE TrimRight(_, _)
TrimRight(s, c) ==
    IF s # <<>> /\ s[Len(s)] = c THEN TrimRight(SubSeq(s, 1, Len(s) - 1), c) ELSE s

\* strings.Replace(s, cc, c, -1) for a doubled character cc
RECURSIVE ReplaceDoubled(_, _)
ReplaceDoubled(s, c) ==
    IF Len(s) < 2 THEN s
    ELSE IF s[1] = c /\ s[2] = c THEN <<c>> \o ReplaceDoubled(From(s, 3), c)
    ELSE <<s[1]>> \o ReplaceDoubled(Tail(s), c)

BooleanCapture(value) == EqualFold(value, TextTRUE)

SheetCapture(value) ==
    LET v == TrimRight(value, "!")
        l == Len(v)
        w == IF l >= 2 /\ v[1] = "'" /\ v[l] = "'" THEN SubSeq(v, 2, l - 1) ELSE v
    IN  ReplaceDoubled(w, "'")

FuncNameCapture(value) == TrimRight(value, "(")

StringCapture(value) == ReplaceDoubled(SubSeq(value, 2, Len(value) - 1), "\"")

(***************************************************************************)
(* The parser: the grammar of the struct tags, by recursive descent.  Each *)
(* rule returns ok, the node and the index of the next token.              *)
(***************************************************************************)
EqualityOps == {<<"<", ">">>, <<"=">>}
ComparisonOps == {<<">">>, <<">", "=">>, <<"<">>, <<"<", "=">>}
AdditionOps == {<<"-">>, <<"+">>}
MultiplicationOps == {<<"/">>, <<"*">>}
UnaryOps == {<<"-">>, <<"+">>}

Peek(toks, i) == IF i <= Len(toks) THEN toks[i] ELSE EOFToken
Parsed(node, i) == [ok |-> TRUE, node |-> node, i |-> i]
NoParse(i) == [ok |-> FALSE, node |-> Nil, i |-> i]

\* Cell: [ @Sheet ] @Cell
ParseCell(toks, i) ==
    LET hasSheet == Peek(toks, i).type = "Sheet"
        j == IF hasSheet THEN i + 1 ELSE i
    IN  IF Peek(toks, j).type = "Cell"
        THEN Parsed(CellNode(IF hasSheet THEN [sheet |-> SheetCapture(toks[i].value)] ELSE Nil,
                             toks[j].value), j + 1)
        ELSE NoParse(j)

\* the range, its two Cells parsed as c and to
CellRangeTo(c, to) == IF to.ok THEN Parsed(CellRangeNode(c.node, to.node), to.i) ELSE to

\* CellRange, the first Cell parsed as c: @@ [ ":" @@ ]
CellRangeFrom(toks, c) ==
    IF ~c.ok THEN c
    ELSE IF Peek(toks, c.i).value # <<":">> THEN Parsed(CellRangeNode(c.node, Nil), c.i)
    ELSE CellRangeTo(c, ParseCell(toks, c.i + 1))

ParseCellRange(toks, i) == CellRangeFrom(toks, ParseCell(toks, i))

RECURSIVE ParseEquality(_, _), ParseComparison(_, _), ParseAddition(_, _)
RECURSIVE ParseMultiplication(_, _), ParseUnary(_, _), ParsePrimary(_, _)
RECURSIVE ParseArguments(_, _, _)

\* a binary layer, its left operand parsed as l and the rest of it as nx
BinaryParsed(l, op, nx, node) == IF nx.ok THEN Parsed(node, nx.i) ELSE nx

\* Equality, the Comparison parsed as l: @@ [ @( "<>" | "=" ) @@ ]
EqualityNext(toks, l, nx) ==
    BinaryParsed(l, Peek(toks, l.i).value, nx, EqualityNode(l.node, Peek(toks, l.i).value, nx.node))

EqualityFrom(toks, l) ==
    IF ~l.ok THEN l
    ELSE IF Peek(toks, l.i).value \notin EqualityOps
    THEN Parsed(EqualityNode(l.node, NoOp, Nil), l.i)
    ELSE EqualityNext(toks, l, ParseEquality(toks, l.i + 1))

ParseEquality(toks, i) == EqualityFrom(toks, ParseComparison(toks, i))

\* Comparison, the Addition parsed as l: @@ [ @( ">" | ">=" | "<" | "<=" ) @@ ]
ComparisonNext(toks, l, nx) ==
    BinaryParsed(l, Peek(toks, l.i).value, nx,
                 ComparisonNode(l.node, Peek(toks, l.i).value, nx.node))

ComparisonFrom(toks, l) ==
    IF ~l.ok THEN l
    ELSE IF Peek(toks, l.i).value \notin ComparisonOps
    THEN Parsed(ComparisonNode(l.node, NoOp, Nil), l.i)
    ELSE ComparisonNext(toks, l, ParseComparison(toks, l.i + 1))

ParseComparison(toks, i) == ComparisonFrom(toks, ParseAddition(toks, i))

\* Addition, the Multiplication parsed as l: @@ [ @( "-" | "+" ) @@ ]
AdditionNext(toks, l, nx) ==
    BinaryParsed(l, Peek(toks, l.i).value, nx, AdditionNode(l.node, Peek(toks, l.i).value, nx.node))

AdditionFrom(toks, l) ==
    IF ~l.ok THEN l
    ELSE IF Peek(toks, l.i).value \notin AdditionOps
    THEN Parsed(AdditionNode(l.node, NoOp, Nil), l.i)
    ELSE AdditionNext(toks, l, ParseAddition(toks, l.i + 1))

ParseAddition(toks, i) == AdditionFrom(toks, ParseMultiplication(toks, i))

\* Multiplication, the Unary parsed as l: @@ [ @( "/" | "*" ) @@ ]
MultiplicationNext(toks, l, nx) ==
    BinaryParsed(l, Peek(toks, l.i).value, nx,
                 MultiplicationNode(l.node, Peek(toks, l.i).value, nx.node))

MultiplicationFrom(toks, l) ==
    IF ~l.ok THEN l
    ELSE IF Peek(toks, l.i).value \notin MultiplicationOps
    THEN Parsed(MultiplicationNode(l.node, NoOp, Nil), l.i)
    ELSE MultiplicationNext(toks, l, ParseMultiplication(toks, l.i + 1))

ParseMultiplication(toks, i) == MultiplicationFrom(toks, ParseUnary(toks, i))

\* the signed Unary, its operand parsed as u
SignedParsed(op, u) == IF u.ok THEN Parsed(UnaryNode(op, u.node, Nil), u.i) ELSE u

\* the Unary that is a Primary, parsed as p
PrimaryParsed(p) == IF p.ok THEN Parsed(UnaryNode(NoOp, Nil, p.node), p.i) ELSE p

\* Unary: ( @( "-" | "+" ) @@ ) | @@
ParseUnary(toks, i) ==
    IF Peek(toks, i).value \in UnaryOps
    THEN SignedParsed(toks[i].value, ParseUnary(toks, i + 1))
    ELSE PrimaryParsed(ParsePrimary(toks, i))

\* Func, one argument parsed as a: @@ { "," @@ } ")"
ArgumentParsed(toks, arguments, a) ==
    IF ~a.ok THEN a
    ELSE IF Peek(toks, a.i).value = <<",">>
    THEN ParseArguments(toks, a.i + 1, Append(arguments, a.node))
    ELSE IF Peek(toks, a.i).value = <<")">>
    THEN Parsed(Append(arguments, a.node), a.i + 1)
    ELSE NoParse(a.i)

ParseArguments(toks, i, arguments) == ArgumentParsed(toks, arguments, ParseEquality(toks, i))

\* "(" @@ ")", the Equality parsed as e
SubExpressionParsed(toks, e) ==
    IF ~e.ok THEN e
    ELSE IF Peek(toks, e.i).value = <<")">> THEN Parsed(PrimarySub(e.node), e.i + 1)
    ELSE NoParse(e.i)

\* Func, its arguments parsed as as
FuncParsed(name, as) ==
    IF as.ok THEN Parsed(PrimaryFunc(FuncNode(FuncNameCapture(name), as.node)), as.i) ELSE as

\* the Primary that is a CellRange, parsed as cr
CellRangeParsed(cr) == IF cr.ok THEN Parsed(PrimaryCellRange(cr.node), cr.i) ELSE cr

\* Primary: "(" @@ ")" | @Number | @String | @("TRUE" | "FALSE") | Func | CellRange
PrimaryFrom(toks, i, t) ==
    IF t.value = <<"(">> THEN SubExpressionParsed(toks, ParseEquality(toks, i + 1))
    ELSE IF t.type = "Number" THEN Parsed(PrimaryNumber(ParseFloat(t.value).num), i + 1)
    ELSE IF t.type = "String" THEN Parsed(PrimaryString(StringCapture(t.value)), i + 1)
    ELSE IF t.type = "Boolean" THEN Parsed(PrimaryBoolean(BooleanCapture(t.value)), i + 1)
    ELSE IF t.type = "FuncName" THEN FuncParsed(t.value, ParseArguments(toks, i + 1, <<>>))
    ELSE CellRangeParsed(ParseCellRange(toks, i))

ParsePrimary(toks, i) == PrimaryFrom(toks, i, Peek(toks, i))

\* Expression, the text lexed and the Equality after its first token parsed as e
ExpressionParsed(toks, e) ==
    IF e.ok /\ e.i = Len(toks) + 1
    THEN [err |-> Nil, expression |-> ExpressionNode(e.node)]
    ELSE [err |-> NewError("unexpected token"), expression |-> Nil]

\* Expression: "=" @@, then the end of the text
ParseTokens(lexed) ==
    IF lexed.err # Nil THEN [err |-> lexed.err, expression |-> Nil]
    ELSE IF Peek(lexed.toks, 1).value # <<"=">>
    THEN [err |-> NewError("unexpected token"), expression |-> Nil]
    ELSE ExpressionParsed(lexed.toks, ParseEquality(lexed.toks, 2))

\* p.ParseString(source, expression)
ParseString(source) == ParseTokens(Lex(source, <<>>))

(***************************************************************************)
(* The formulas the compiler is run on: every Expression the grammar can   *)
(* produce with at most MaxNodes nodes over a small vocabulary.            *)
(***************************************************************************)
TextA1 == <<"A", "1">>
TextB1 == <<"B", "1">>
TextA2 == <<"A", "2">>
TextSUM == <<"S", "U", "M">>
TextSheet == <<"S", "h">>

GenLeaves ==
    << PrimaryNumber(Normalise(1, 0)),
       PrimaryCellRange(CellRangeNode(CellNode(Nil, TextA1), Nil)),
       PrimaryCellRange(CellRangeNode(CellNode(Nil, TextB1), Nil)),
       PrimaryCellRange(CellRangeNode(CellNode([sheet |-> TextSheet], TextA2),
                                      CellNode(Nil, TextB1))) >>
GenEqualityOp == <<"=">>
GenComparisonOp == <<"<">>
GenAdditionOp == <<"-">>
GenMultiplicationOp == <<"/">>
GenUnaryOp == <<"-">>

\* lists are used, not sets: the pieces are disjoint by construction
Map(xs, F(_)) == [i \in 1..Len(xs) |-> F(xs[i])]
Pairs(xs, ys, F(_, _)) ==
    [i \in 1..(Len(xs) * Len(ys)) |->
        F(xs[((i - 1) \div Len(ys)) + 1], ys[((i - 1) % Len(ys)) + 1])]
ConcatFor(n, P(_)) == Concat([i \in 1..n |-> P(i)])

\* the argument lists of n Equality nodes with total nodes in all
RECURSIVE GenArguments(_, _, _)
GenArguments(n, total, table) ==
    IF n = 1 THEN (IF total \in DOMAIN table
                   THEN Map(table[total].eq, LAMBDA e : <<e>>)
                   ELSE <<>>)
    ELSE ConcatFor(total - (n - 1),
                   LAMBDA i : Pairs(table[i].eq, GenArguments(n - 1, total - i, table),
                                    LAMBDA e, rest : <<e>> \o rest))

\* one binary layer: the nodes of exactly k nodes, from those of the tighter layer
\* (sub, of k nodes; subs, of fewer) and those of the layer itself of fewer nodes (own)
GenBinary(k, sub, subs(_), own(_), op, Node(_, _, _)) ==
    Map(sub, LAMBDA x : Node(x, NoOp, Nil))
    \o ConcatFor(k - 2, LAMBDA i : Pairs(subs(i), own(k - 1 - i),
                                         LAMBDA x, nx : Node(x, op, nx)))

\* the nodes of exactly k nodes of every layer, given those of fewer nodes
GenPrimaries(k, table) ==
    (IF k = 1 THEN GenLeaves ELSE Map(table[k - 1].eq, PrimarySub))
    \o ConcatFor(IF k - 1 < MaxArgs THEN k - 1 ELSE MaxArgs,
                 LAMBDA n : Map(GenArguments(n, k - 1, table),
                                LAMBDA as : PrimaryFunc(FuncNode(TextSUM, as))))

GenUnaries(k, table, prim) ==
    Map(prim, LAMBDA p : UnaryNode(NoOp, Nil, p))
    \o (IF k > 1 THEN Map(table[k - 1].un, LAMBDA u : UnaryNode(GenUnaryOp, u, Nil))
        ELSE <<>>)

GenLevel(k, table) ==
    LET prim == GenPrimaries(k, table)
        un == GenUnaries(k, table, prim)
        mul == GenBinary(k, un, LAMBDA i : table[i].un, LAMBDA i : table[i].mul,
                         GenMultiplicationOp, MultiplicationNode)
        add == GenBinary(k, mul, LAMBDA i : table[i].mul, LAMBDA i : table[i].add,
                         GenAdditionOp, AdditionNode)
        cmp == GenBinary(k, add, LAMBDA i : table[i].add, LAMBDA i : table[i].cmp,
                         GenComparisonOp, ComparisonNode)
        eq == GenBinary(k, cmp, LAMBDA i : table[i].cmp, LAMBDA i : table[i].eq,
                        GenEqualityOp, EqualityNode)
    IN  [un |-> un, mul |-> mul, add |-> add, cmp |-> cmp, eq |-> eq]

RECURSIVE GenTable(_, _)
GenTable(k, table) ==
    IF k > MaxNodes THEN table ELSE GenTable(k + 1, Append(table, GenLevel(k, table)))

\* the list of every Expression of at most MaxNodes nodes
Formulas ==
    LET table == GenTable(1, <<>>)
    IN  Map(ConcatFor(MaxNodes, LAMBDA k : table[k].eq), ExpressionNode)

(***************************************************************************)
(* formula.Parse once the text is parsed: compile, then invoke.            *)
(***************************************************************************)
\* what Parse keeps of the walk b: the Function and the VarBin (and the count)
Compiled(b) == [f |-> b.f, vb |-> [Vars |-> b.vars], n |-> b.n]

\* Parse, from the parsed expression on: the Function and the VarBin
ParseExpression(e) == Compiled(buildFuncFromEquality(e.Equality, <<>>))

\* the operator and function names of the generated formulas
GenNames == {GenEqualityOp, GenComparisonOp, GenAdditionOp, GenMultiplicationOp, TextSUM}

\* slot i of the argument array the Function is invoked on: the decimal i
SlotValue(i) == NewDecimalValue(Normalise(i, 0))

\* the record of the last call made on the sheet: the operation and its cell,
\* what it returned, the typing calls it made, and whether it follows an
\* EraseValue of the same cell
NoCall ==
    [op |-> "none", cell |-> <<>>, val |-> ZeroValue, err |-> Nil,
     panic |-> "", log |-> <<>>, afterErase |-> FALSE]

InitSheetIdle ==
    /\ cells = << >>
    /\ panicked = ""
    /\ last = NoCall

\* nothing printed yet, and no evaluation Context in use
InitRoundTripIdle ==
    /\ rendered = Nil
    /\ reparsed = Nil

InitContextIdle == visitedCells = {}

\* no editor open and no document
InitUiIdle ==
    /\ ed = Nil
    /\ doc = Nil

InitFormula ==
    /\ \E i \in 1..Len(Formulas) : expression = Formulas[i]
    /\ pc = "parsed"
    /\ function = NilFunc
    /\ vb = Nil
    /\ consumed = 0
    /\ args = <<>>
    /\ result = Nil
    /\ failing \in {{}, {GenMultiplicationOp, TextSUM}}
    /\ InitSheetIdle
    /\ InitRoundTripIdle
    /\ InitContextIdle
    /\ InitUiIdle

\* Parse, lines 260-262: compile the expression
Build ==
    /\ pc = "parsed"
    /\ LET p == ParseExpression(expression)
       IN  /\ function' = p.f
           /\ vb' = p.vb
           /\ consumed' = p.n
    /\ pc' = "built"
    /\ UNCHANGED <<expression, args, result, failing, sheetVars, roundVars, visitedCells, uiVars>>

\* the caller invokes the Function with one resolved value per variable
Invoke ==
    /\ pc = "built"
    /\ args' = [i \in 1..Len(vb.Vars) |-> SlotValue(i)]
    /\ result' = Call(function, args')
    /\ pc' = "called"
    /\ UNCHANGED <<expression, function, vb, consumed, failing, sheetVars, roundVars, visitedCells, uiVars>>

NextFormula == Build \/ Invoke

SpecFormula == InitFormula /\ [][NextFormula]_vars

(***************************************************************************)
(* sheet.Cell: the type discriminants and guessCellType.                   *)
(***************************************************************************)
CellValueUntyped == 0
CellValueTypeEmpty == 1
CellValueTypeText == 2
CellValueTypeInteger == 3
CellValueTypeDecimal == 4
CellValueTypeBool == 5
CellValueTypeFormula == 6

CellErrorTypeNoError == 0
CellErrorTypeFormulaError == 1
CellErrorTypeRefError == 2

\* a guessCellType that settles on no type
guessCellTypeUntyped(v) == [t |-> CellValueUntyped, castedV |-> Nil]

\* guessCellType: the detected type and the casted value (an interface{}: nil, a
\* bool, an int64 or the text)
guessCellType(v) ==
    IF Len(v) = 0 THEN [t |-> CellValueTypeEmpty, castedV |-> Nil]
    ELSE IF v[1] = "=" /\ Len(v) > 1 THEN [t |-> CellValueTypeFormula, castedV |-> Nil]
    ELSE IF ParseBool(v).err = Nil
    THEN [t |-> CellValueTypeBool, castedV |-> [bool |-> ParseBool(v).b]]
    ELSE IF ParseFloat(v).err = Nil THEN [t |-> CellValueTypeDecimal, castedV |-> Nil]
    ELSE IF ParseInt(v).err = Nil
    THEN [t |-> CellValueTypeInteger, castedV |-> [int64 |-> ParseInt(v).i]]
    ELSE [t |-> CellValueTypeText, castedV |-> [string |-> v]]

(***************************************************************************)
(* sheet.Cell: construction, erasure and lazy typing.                      *)
(***************************************************************************)
\* &Cell{}: every field at its zero value
ZeroCell ==
    [valueType |-> 0, errorType |-> 0, rawValue |-> <<>>, intValue |-> 0,
     decimalValue |-> Nil, boolValue |-> FALSE, formulaValue |-> NilFunc, args |-> Nil]

NewCellEmpty ==
    [ZeroCell EXCEPT !.valueType = CellValueTypeEmpty, !.errorType = CellErrorTypeNoError]

EraseValue(c) ==
    [c EXCEPT !.rawValue = <<>>,
              !.boolValue = FALSE,
              !.intValue = 0,
              !.decimalValue = Nil,
              !.formulaValue = NilFunc,
              !.valueType = CellValueTypeEmpty,
              !.errorType = CellErrorTypeNoError]

\* SetValueUntyped that stores the text and nothing else
SetValueUntypedRawOnly(c, v) == [c EXCEPT !.rawValue = v]

SetValueUntyped(c, v) ==
    [EraseValue(c) EXCEPT !.valueType = CellValueUntyped, !.rawValue = v]

NewCellUntyped(v) == SetValueUntyped(ZeroCell, v)

\* formula.Parse, the text parsed as p: the Function, the VarBin and the error
ParseFrom(p, compiled) ==
    IF p.err # Nil THEN [f |-> NilFunc, vb |-> Nil, err |-> p.err]
    ELSE [f |-> compiled.f, vb |-> compiled.vb, err |-> Nil]

ParseParsed(p) == ParseFrom(p, ParseExpression(p.expression))

Parse(source) == ParseParsed(ParseString(source))

\* dd.MakeLink(cell, sheet) on the registry of one sheet whose cells are dd:
\* a link to the cell, or the error of a cell or sheet that is not found
MakeLink(cell, sheet, dd) ==
    IF sheet = Nil /\ cell \in dd
    THEN [l |-> [cell |-> cell], err |-> Nil]
    ELSE [l |-> Nil, err |-> NewError("not found")]

\* makeLinks, the loop from entry i on; log lists the calls made
RECURSIVE makeLinksFrom(_, _, _, _, _)
\* the call dd.MakeLink(cell, sheet), as an entry of the log
MakeLinkCall(cell, sheet) == [call |-> "MakeLink", cell |-> cell, sheet |-> sheet]

\* a loop that leaves the slot of a failed MakeLink unresolved and goes on
makeLinksFromSkipping(Vars, i, values, dd, log) ==
    IF i > Len(Vars) THEN [values |-> [elems |-> values], err |-> Nil, log |-> log]
    ELSE makeLinksFrom(Vars, i + 1, Append(values, ZeroValue), dd,
                       IF Vars[i].CellTo # Nil THEN log
                       ELSE Append(log, MakeLinkCall(Vars[i].Cell.Cell, Vars[i].Cell.Sheet)))

makeLinksFrom(Vars, i, values, dd, log) ==
    IF i > Len(Vars) THEN [values |-> [elems |-> values], err |-> Nil, log |-> log]
    ELSE IF Vars[i].CellTo # Nil
    THEN makeLinksFrom(Vars, i + 1, Append(values, ZeroValue), dd, log)
    ELSE LET c == Vars[i].Cell
             made == MakeLink(c.Cell, c.Sheet, dd)
         IN  IF made.err # Nil
             THEN [values |-> Nil, err |-> made.err,
                   log |-> Append(log, MakeLinkCall(c.Cell, c.Sheet))]
             ELSE makeLinksFrom(Vars, i + 1, Append(values, NewLinkValue(made.l)), dd,
                                Append(log, MakeLinkCall(c.Cell, c.Sheet)))

makeLinks(vbin, dd) == makeLinksFrom(vbin.Vars, 1, <<>>, dd, <<>>)

\* what evaluateType leaves: the cell, the calls it made, and its panic if any
Evaluated(cell, log) == [c |-> cell, log |-> <<"guessCellType">> \o log, panic |-> ""]

\* evaluateType of a formula, after makeLinks returned links
LinksMade(c3, links) ==
    IF links.err # Nil
    THEN Evaluated([c3 EXCEPT !.args = links.values, !.errorType = CellErrorTypeRefError],
                   <<"Parse">> \o links.log)
    ELSE Evaluated([c3 EXCEPT !.args = links.values], <<"Parse">> \o links.log)

\* evaluateType of a formula, after formula.Parse returned parsed
FormulaParsed(c2, dd, parsed) ==
    IF parsed.err # Nil
    THEN Evaluated([c2 EXCEPT !.errorType = CellErrorTypeFormulaError], <<"Parse">>)
    ELSE LinksMade([c2 EXCEPT !.formulaValue = parsed.f], makeLinks(parsed.vb, dd))

\* evaluateType, after guessCellType returned g
TypeGuessed(c, dd, g) ==
    CASE g.t = CellValueTypeInteger ->
            \* castedV holds an int64: the assertion to int fails
            [c |-> [c EXCEPT !.valueType = g.t], log |-> <<"guessCellType">>,
             panic |-> "interface conversion"]
      [] g.t = CellValueTypeDecimal ->
            Evaluated([c EXCEPT !.valueType = g.t,
                                !.decimalValue = [dec |-> NewFromString(c.rawValue)]], <<>>)
      [] g.t = CellValueTypeBool ->
            Evaluated([c EXCEPT !.valueType = g.t, !.boolValue = g.castedV.bool], <<>>)
      [] g.t = CellValueTypeFormula ->
            FormulaParsed([c EXCEPT !.valueType = g.t, !.formulaValue = NilFunc, !.args = Nil],
                          dd, Parse(c.rawValue))
      [] OTHER -> Evaluated([c EXCEPT !.valueType = g.t], <<>>)

evaluateType(c, dd) == TypeGuessed(c, dd, guessCellType(c.rawValue))

(***************************************************************************)
(* sheet.Cell: the accessors.  An accessor threads the sheet sh (it types  *)
(* the cells it reads) and the log of the typing calls made; chain is the  *)
(* set of cells whose accessor is on the call stack.                       *)
(***************************************************************************)
Accessors == {"BoolValue", "DecimalValue", "StringValue", "Value"}

Outcome(sh, log, val, err, panic) ==
    [sh |-> sh, log |-> log, val |-> val, err |-> err, panic |-> panic]

\* a guard that types the cell on every read
NeedsTypeAlways(c) == TRUE

\* the guard of every accessor: valueType == CellValueUntyped
NeedsType(c) == c.valueType = CellValueUntyped

\* the zero result an accessor returns next to an error
ZeroOf(kind) ==
    CASE kind = "BoolValue" -> NewBoolValue(FALSE)
      [] kind = "DecimalValue" -> NewDecimalValue(Normalise(0, 0))
      [] kind = "StringValue" -> NewStringValue(<<>>)
      [] OTHER -> ZeroValue

TextOfBool(b) == IF b THEN TextTRUE ELSE TextFALSE

\* a switch that returns the zero result and no error for every type
CellPayloadNoCast(kind, c) == [val |-> ZeroOf(kind), err |-> Nil, panic |-> ""]

\* the switch of an accessor on a cell that holds no formula
CellPayload(kind, c) ==
    LET t == c.valueType
        ret(v) == [val |-> v, err |-> Nil, panic |-> ""]
        fail(msg) == [val |-> ZeroOf(kind), err |-> NewError(msg), panic |-> ""]
        deref(F(_)) == IF c.decimalValue = Nil
                       THEN [val |-> ZeroOf(kind), err |-> Nil, panic |-> "nil pointer dereference"]
                       ELSE ret(F(c.decimalValue.dec))
        NonZero(d) == NewBoolValue(d.m # 0)
    IN  CASE kind = "BoolValue" ->
                CASE t = CellValueTypeEmpty -> ret(NewBoolValue(FALSE))
                  [] t = CellValueTypeText -> fail("unable to cast text to bool")
                  [] t = CellValueTypeInteger -> ret(NewBoolValue(c.intValue # 0))
                  [] t = CellValueTypeDecimal -> deref(NonZero)
                  [] t = CellValueTypeBool -> ret(NewBoolValue(c.boolValue))
                  [] OTHER -> ret(NewBoolValue(FALSE))
          [] kind = "DecimalValue" ->
                CASE t = CellValueTypeEmpty -> ret(NewDecimalValue(Normalise(0, 0)))
                  [] t = CellValueTypeText -> fail("unable to cast text to decimal")
                  [] t = CellValueTypeInteger -> ret(NewDecimalValue(Normalise(c.intValue, 0)))
                  [] t = CellValueTypeDecimal -> deref(NewDecimalValue)
                  [] t = CellValueTypeBool -> fail("unable to cast bool to decimal")
                  [] OTHER -> ret(NewDecimalValue(Normalise(0, 0)))
          [] kind = "StringValue" -> ret(NewStringValue(c.rawValue))
          [] OTHER ->
                CASE t = CellValueTypeEmpty -> ret(NewStringValue(<<>>))
                  [] t = CellValueTypeText -> ret(NewStringValue(c.rawValue))
                  [] t = CellValueTypeInteger -> ret(NewDecimalValue(Normalise(c.intValue, 0)))
                  [] t = CellValueTypeDecimal -> deref(NewDecimalValue)
                  [] t = CellValueTypeBool -> ret(NewBoolValue(c.boolValue))
                  [] OTHER -> [val |-> ZeroValue, err |-> Nil, panic |-> "unsupported type"]

\* value.Value's BoolValue, DecimalValue and StringValue on a value that is no link
Coerce(kind, v) ==
    LET ret(w) == [val |-> w, err |-> Nil]
        fail(msg) == [val |-> ZeroOf(kind), err |-> NewError(msg)]
    IN  IF v.t = "result" THEN ret([t |-> "coerced", kind |-> kind, of |-> v])
        ELSE CASE kind = "BoolValue" ->
                    CASE v.t = "bool" -> ret(v)
                      [] v.t = "decimal" -> ret(NewBoolValue(v.d.m # 0))
                      [] v.t = "string" -> fail("unable to cast text to bool")
                      [] OTHER -> ret(NewBoolValue(FALSE))
               [] kind = "DecimalValue" ->
                    CASE v.t = "decimal" -> ret(v)
                      [] v.t = "bool" -> fail("unable to cast bool to decimal")
                      [] v.t = "string" -> fail("unable to cast text to decimal")
                      [] OTHER -> ret(NewDecimalValue(Normalise(0, 0)))
               [] OTHER ->
                    CASE v.t = "string" -> ret(v)
                      [] v.t = "decimal" -> ret(NewStringValue(FormatFloat(v.d)))
                      [] v.t = "bool" -> ret(NewStringValue(TextOfBool(v.b)))
                      [] OTHER -> ret(NewStringValue(<<>>))

RECURSIVE Accessor(_, _, _, _, _)

\* a link asked for its value: the same accessor of the cell it links to.  A
\* cell entered while its own accessor is on the call stack recurses without
\* end, and the stack overflows.
LinkValue(kind, sh, l, chain, log) ==
    IF l.cell \in chain THEN Outcome(sh, log, ZeroOf(kind), Nil, "stack overflow")
    ELSE Accessor(kind, sh, l.cell, chain, log)

\* StringValue drops the error of the value it stringifies
WithoutError(o) == Outcome(o.sh, o.log, o.val, Nil, o.panic)

\* the coercion own of a value that is no link, as the accessor's outcome
Coerced(kind, sh, log, own) ==
    Outcome(sh, log, own.val, IF kind = "StringValue" THEN Nil ELSE own.err, "")

\* a formula branch that returns the evaluation error from StringValue too
FormulaCalledStrict(kind, sh, name, chain, log, r) ==
    IF r.panic # "" THEN Outcome(sh, log, ZeroOf(kind), Nil, r.panic)
    ELSE IF kind = "Value" THEN Outcome(sh, log, r.val, r.err, "")
    ELSE IF r.err # Nil THEN Outcome(sh, log, ZeroOf(kind), r.err, "")
    ELSE IF r.val.t = "link" THEN LinkValue(kind, sh, r.val.l, chain \cup {name}, log)
    ELSE Coerced(kind, sh, log, Coerce(kind, r.val))

\* the CellValueTypeFormula branch of an accessor, c.formulaValue(c.args) returned as r
FormulaCalled(kind, sh, name, chain, log, r) ==
    IF r.panic # "" THEN Outcome(sh, log, ZeroOf(kind), Nil, r.panic)
    ELSE IF kind = "Value" THEN Outcome(sh, log, r.val, r.err, "")
    ELSE IF kind = "StringValue"
    THEN IF r.val.t = "link"
         THEN WithoutError(LinkValue(kind, sh, r.val.l, chain \cup {name}, log))
         ELSE Coerced(kind, sh, log, Coerce(kind, r.val))
    ELSE IF r.err # Nil THEN Outcome(sh, log, ZeroOf(kind), r.err, "")
    ELSE IF r.val.t = "link" THEN LinkValue(kind, sh, r.val.l, chain \cup {name}, log)
    ELSE Coerced(kind, sh, log, Coerce(kind, r.val))

\* the switch of an accessor on a cell that holds no formula, as its outcome
Switched(sh, log, p) == Outcome(sh, log, p.val, p.err, p.panic)

\* an accessor that records the cast error it returns in the cell's errorType
GuardedStoringError(kind, sh, name, chain, log, c) ==
    IF c.valueType # CellValueTypeFormula
    THEN LET p == CellPayload(kind, c)
         IN  Outcome(IF p.err = Nil THEN sh
                     ELSE [sh EXCEPT ![name].errorType = CellErrorTypeFormulaError],
                     log, p.val, p.err, p.panic)
    ELSE FormulaCalled(kind, sh, name, chain, log,
                       Call(c.formulaValue, IF c.args = Nil THEN <<>> ELSE c.args.elems))

\* an accessor after its guard: c is the cell, typed if it was not
Guarded(kind, sh, name, chain, log, c) ==
    IF c.valueType # CellValueTypeFormula THEN Switched(sh, log, CellPayload(kind, c))
    ELSE FormulaCalled(kind, sh, name, chain, log,
                       Call(c.formulaValue, IF c.args = Nil THEN <<>> ELSE c.args.elems))

\* an accessor once evaluateType, if it ran, returned typed
Typing(kind, sh, name, chain, log, typed) ==
    IF typed.panic # ""
    THEN Outcome([sh EXCEPT ![name] = typed.c],
                 log \o [i \in 1..Len(typed.log) |-> [cell |-> name, call |-> typed.log[i]]],
                 ZeroOf(kind), Nil, typed.panic)
    ELSE Guarded(kind, [sh EXCEPT ![name] = typed.c], name, chain,
                 log \o [i \in 1..Len(typed.log) |-> [cell |-> name, call |-> typed.log[i]]],
                 typed.c)

\* the accessor kind of the cell name
Accessor(kind, sh, name, chain, log) ==
    Typing(kind, sh, name, chain, log,
           IF NeedsType(sh[name]) THEN evaluateType(sh[name], DOMAIN sh)
           ELSE [c |-> sh[name], log |-> <<>>, panic |-> ""])

(***************************************************************************)
(* A sheet of at most two cells, A1 and B1, and the calls a document makes *)
(* on them.  No cell A2 exists.  The operands of the operators of the raw  *)
(* texts are literals: a reference stands alone or under SUM.  A panic     *)
(* ends the program.                                                       *)
(***************************************************************************)
CellNames == {TextA1, TextB1}

TextHello == <<"h", "e", "l", "l", "o">>
TextOnePlusTwo == <<"=", "1", "+", "2">>
TextOnePlus == <<"=", "1", "+">>
TextHash == <<"=", "#">>
\* a formula whose left operand is evaluated, and can fail, before its reference is read
TextSumThenB1 == <<"=", "(", "1", "+", "2", ")", "+">> \o TextB1
TextSumA1A2 == <<"=">> \o TextSUM \o <<"(">> \o TextA1 \o <<",">> \o TextA2 \o <<")">>

RawTexts ==
    { <<>>, <<"1">>, <<"1", ".", "5">>, TextTRUE, TextHello, TextOnePlusTwo,
      <<"=">> \o TextA1, <<"=">> \o TextB1, TextSumA1A2, TextOnePlus, TextHash,
      TextSumThenB1 }

\* the texts B1, the cell the formulas of A1 link to, is given
LinkedTexts == { <<"1", ".", "5">>, TextHello, <<"=">> \o TextA1, TextOnePlus }

TextsOf(name) == IF name = TextA1 THEN RawTexts ELSE LinkedTexts

InitFormulaIdle ==
    /\ expression = Nil
    /\ pc = "idle"
    /\ function = NilFunc
    /\ vb = Nil
    /\ consumed = 0
    /\ args = <<>>
    /\ result = Nil

InitSheet ==
    /\ InitFormulaIdle
    /\ InitRoundTripIdle
    /\ InitContextIdle
    /\ InitUiIdle
    /\ failing \in {{}, {<<"+">>}}
    /\ cells = << >>
    /\ panicked = ""
    /\ last = NoCall

Called(op, name) ==
    [NoCall EXCEPT !.op = op, !.cell = name,
                   !.afterErase = (last.op = "EraseValue" /\ last.cell = name)]

CallNewCellEmpty ==
    /\ panicked = ""
    /\ \E name \in CellNames \ DOMAIN cells :
        /\ cells' = cells @@ (name :> NewCellEmpty)
        /\ last' = Called("NewCellEmpty", name)
    /\ UNCHANGED <<formulaVars, roundVars, visitedCells, failing, panicked, uiVars>>

CallNewCellUntyped ==
    /\ panicked = ""
    /\ \E name \in CellNames \ DOMAIN cells : \E v \in TextsOf(name) :
        /\ cells' = cells @@ (name :> NewCellUntyped(v))
        /\ last' = Called("NewCellUntyped", name)
    /\ UNCHANGED <<formulaVars, roundVars, visitedCells, failing, panicked, uiVars>>

CallEraseValue ==
    /\ panicked = ""
    /\ \E name \in DOMAIN cells :
        /\ cells' = [cells EXCEPT ![name] = EraseValue(@)]
        /\ last' = Called("EraseValue", name)
    /\ UNCHANGED <<formulaVars, roundVars, visitedCells, failing, panicked, uiVars>>

CallSetValueUntyped ==
    /\ panicked = ""
    /\ \E name \in DOMAIN cells : \E v \in TextsOf(name) :
        /\ cells' = [cells EXCEPT ![name] = SetValueUntyped(@, v)]
        /\ last' = Called("SetValueUntyped", name)
    /\ UNCHANGED <<formulaVars, roundVars, visitedCells, failing, panicked, uiVars>>

\* the accessor kind of the cell name returns o
Returns(kind, name, o) ==
    /\ cells' = o.sh
    /\ panicked' = o.panic
    /\ last' = [Called(kind, name) EXCEPT !.val = o.val, !.err = o.err,
                                          !.panic = o.panic, !.log = o.log]

CallBoolValue ==
    /\ panicked = ""
    /\ \E name \in DOMAIN cells :
        Returns("BoolValue", name, Accessor("BoolValue", cells, name, {}, <<>>))
    /\ UNCHANGED <<formulaVars, roundVars, visitedCells, failing, uiVars>>

CallDecimalValue ==
    /\ panicked = ""
    /\ \E name \in DOMAIN cells :
        Returns("DecimalValue", name, Accessor("DecimalValue", cells, name, {}, <<>>))
    /\ UNCHANGED <<formulaVars, roundVars, visitedCells, failing, uiVars>>

CallStringValue ==
    /\ panicked = ""
    /\ \E name \in DOMAIN cells :
        Returns("StringValue", name, Accessor("StringValue", cells, name, {}, <<>>))
    /\ UNCHANGED <<formulaVars, roundVars, visitedCells, failing, uiVars>>

CallValue ==
    /\ panicked = ""
    /\ \E name \in DOMAIN cells :
        Returns("Value", name, Accessor("Value", cells, name, {}, <<>>))
    /\ UNCHANGED <<formulaVars, roundVars, visitedCells, failing, uiVars>>

\* RawValue, lines 98-100: the stored text, with no evaluation
RawValue(c) == c.rawValue

CallRawValue ==
    /\ panicked = ""
    /\ \E name \in DOMAIN cells :
        last' = [Called("RawValue", name) EXCEPT !.val = NewStringValue(RawValue(cells[name]))]
    /\ UNCHANGED <<formulaVars, roundVars, visitedCells, failing, cells, panicked, uiVars>>

NextSheet ==
    \/ CallNewCellEmpty
    \/ CallNewCellUntyped
    \/ CallEraseValue
    \/ CallSetValueUntyped
    \/ CallBoolValue
    \/ CallDecimalValue
    \/ CallStringValue
    \/ CallValue
    \/ CallRawValue

SpecSheet == InitSheet /\ [][NextSheet]_vars

(***************************************************************************)
(* The round trip: an Expression is compiled and invoked, printed by       *)
(* Expression.String, and the printed text is handed to formula.Parse,     *)
(* whose Function is invoked on the same reference bindings.               *)
(***************************************************************************)
TextMySheet == <<"M", "y", " ", "S">>

\* the Expression of one Primary alone
Single(p) ==
    ExpressionNode(EqualityNode(ComparisonNode(AdditionNode(MultiplicationNode(
        UnaryNode(NoOp, Nil, p), NoOp, Nil), NoOp, Nil), NoOp, Nil), NoOp, Nil))

\* Expressions the generator leaves out: a string literal, a boolean, a call on
\* a string literal, and a reference whose sheet name needs quoting in the text
Literals ==
    << Single(PrimaryString(TextHello)),
       Single(PrimaryBoolean(TRUE)),
       Single(PrimaryFunc(FuncNode(TextSUM, <<Single(PrimaryString(TextHello)).Equality>>))),
       Single(PrimaryCellRange(CellRangeNode(CellNode([sheet |-> TextMySheet], TextA1), Nil))) >>

\* the value a reference is bound to: the same for every slot of that reference
BoundValue(var) == NewLinkValue(var)

BoundArgs(vbin) == [i \in 1..Len(vbin.Vars) |-> BoundValue(vbin.Vars[i])]

InitRoundTrip ==
    /\ \E i \in 1..(Len(Formulas) + Len(Literals)) :
          expression = (Formulas \o Literals)[i]
    /\ pc = "parsed"
    /\ function = NilFunc
    /\ vb = Nil
    /\ consumed = 0
    /\ args = <<>>
    /\ result = Nil
    /\ failing = {}
    /\ InitSheetIdle
    /\ InitRoundTripIdle
    /\ InitContextIdle
    /\ InitUiIdle

\* the Function of the Expression, invoked on the bound references
Evaluate ==
    /\ pc = "built"
    /\ args' = BoundArgs(vb)
    /\ result' = Call(function, args')
    /\ pc' = "called"
    /\ UNCHANGED <<expression, function, vb, consumed, failing, sheetVars, roundVars,
                   visitedCells, uiVars>>

\* Expression.String, lines 27-33
Render ==
    /\ pc = "called"
    /\ rendered' = ExpressionString(expression)
    /\ pc' = "rendered"
    /\ UNCHANGED <<expression, function, vb, consumed, args, result, failing, sheetVars,
                   reparsed, visitedCells, uiVars>>

\* formula.Parse of the printed text, and its Function invoked on the same bindings
ReparsedFrom(p) ==
    [err |-> p.err,
     result |-> IF p.err = Nil THEN Call(p.f, BoundArgs(p.vb)) ELSE Nil]

Reparse ==
    /\ pc = "rendered"
    /\ reparsed' = ReparsedFrom(Parse(rendered))
    /\ pc' = "reparsed"
    /\ UNCHANGED <<expression, function, vb, consumed, args, result, failing, sheetVars,
                   rendered, visitedCells, uiVars>>

NextRoundTrip == Build \/ Evaluate \/ Render \/ Reparse

SpecRoundTrip == InitRoundTrip /\ [][NextRoundTrip]_vars

(***************************************************************************)
(* eval.Context: the set of visited cell references.  The map is keyed by  *)
(* *CellRef, so a key is a pointer: two pointers to equal CellRef values   *)
(* are two keys.                                                           *)
(***************************************************************************)
\* the *CellRef pointers of the model, and the cell each CellRef names
Pointers == {"p1", "p2", "p3", "p4", "p5"}
CellRefAt(ptr) == IF ptr \in {"p1", "p2"} THEN TextA1 ELSE TextB1

\* Reset, lines 16-18: a new, empty map
Reset == {}

\* NewContext, lines 8-14: a Context whose map Reset made
NewContext == Reset

\* an AddVisited that keys the map by the CellRef value, not by the pointer
AddVisitedByValue(visited, r) ==
    visited \cup {q \in Pointers : CellRefAt(q) = CellRefAt(r)}

\* AddVisited, lines 20-22: c.visitedCells[r] = true
AddVisited(visited, r) == visited \cup {r}

\* Visited, lines 24-27: _, ok := c.visitedCells[r]
Visited(visited, r) == r \in visited

\* the record of a call on the Context: the operation, its reference and what it
\* returned, and the references AddVisited was called with since the creation
\* of the Context or its last Reset
ContextCall(op, r, ret, added) == [op |-> op, r |-> r, ret |-> ret, added |-> added]

InitContext ==
    /\ InitFormulaIdle
    /\ InitRoundTripIdle
    /\ failing = {}
    /\ cells = << >>
    /\ panicked = ""
    /\ visitedCells = NewContext
    /\ last = ContextCall("NewContext", Nil, Nil, {})
    /\ InitUiIdle

CallNewContext ==
    /\ visitedCells' = NewContext
    /\ last' = ContextCall("NewContext", Nil, Nil, {})
    /\ UNCHANGED <<formulaVars, roundVars, failing, cells, panicked, uiVars>>

CallReset ==
    /\ visitedCells' = Reset
    /\ last' = ContextCall("Reset", Nil, Nil, {})
    /\ UNCHANGED <<formulaVars, roundVars, failing, cells, panicked, uiVars>>

CallAddVisited ==
    /\ \E r \in Pointers :
        /\ visitedCells' = AddVisited(visitedCells, r)
        /\ last' = ContextCall("AddVisited", r, Nil, last.added \cup {r})
    /\ UNCHANGED <<formulaVars, roundVars, failing, cells, panicked, uiVars>>

CallVisited ==
    /\ \E r \in Pointers :
        last' = ContextCall("Visited", r, Visited(visitedCells, r), last.added)
    /\ UNCHANGED <<formulaVars, roundVars, failing, cells, panicked, visitedCells, uiVars>>

NextContext == CallNewContext \/ CallReset \/ CallAddVisited \/ CallVisited

SpecContext == InitContext /\ [][NextContext]_vars

(***************************************************************************)
(* makeLinks on its own: a variable bin of up to MaxVars references and a  *)
(* registry that knows some of the cells.                                  *)
(***************************************************************************)
\* the references of a variable bin: two cells of the sheet, a cell of another
\* sheet, and a range
LinkVars ==
    { newVar(CellRangeNode(CellNode(Nil, TextA1), Nil)),
      newVar(CellRangeNode(CellNode(Nil, TextB1), Nil)),
      newVar(CellRangeNode(CellNode([sheet |-> TextSheet], TextA1), Nil)),
      newVar(CellRangeNode(CellNode(Nil, TextA1), CellNode(Nil, TextB1))) }

InitLinks ==
    /\ expression = Nil
    /\ pc = "built"
    /\ function = NilFunc
    /\ \E n \in 0..MaxVars : \E vs \in [1..n -> LinkVars] : vb = [Vars |-> vs]
    /\ consumed = 0
    /\ args = <<>>
    /\ result = Nil
    /\ failing = {}
    /\ \E dd \in SUBSET CellNames : cells = [name \in dd |-> NewCellEmpty]
    /\ panicked = ""
    /\ last = NoCall
    /\ InitRoundTripIdle
    /\ InitContextIdle
    /\ InitUiIdle

\* makeLinks(vb, dd), lines 252-270, on the registry of the cells that exist
CallMakeLinks ==
    /\ pc = "built"
    /\ LET made == makeLinks(vb, DOMAIN cells)
       IN  /\ args' = made.values
           /\ result' = [err |-> made.err, log |-> made.log]
    /\ pc' = "linked"
    /\ UNCHANGED <<expression, function, vb, consumed, failing, sheetVars, roundVars,
                   visitedCells, uiVars>>

NextLinks == CallMakeLinks

SpecLinks == InitLinks /\ [][NextLinks]_vars

(***************************************************************************)
(* The line editor of the terminal front end (package termbox).  A line is *)
(* a record of the heap e.lines, a *line is its index, and 0 is nil.  A    *)
(* byte slice is the sequence of its bytes: every line owns its array      *)
(* (insertLine clones the tail it moves), so no two slices share bytes.    *)
(* A rune is the sequence of the bytes utf8.EncodeRune writes for it.      *)
(***************************************************************************)
\* the runes typed: a one-byte rune and a two-byte rune; the space of KeySpace
RuneA == <<"a">>
RuneE == <<"c3", "a9">>
RuneSpace == <<" ">>
RuneNewline == <<"\n">>

\* utf8.DecodeRune and utf8.DecodeLastRune of a non-empty slice: the width
DecodeRune(b) == IF Len(b) >= 2 /\ b[1] = "c3" /\ b[2] = "a9" THEN 2 ELSE 1
DecodeLastRune(b) ==
    IF Len(b) >= 2 /\ b[Len(b) - 1] = "c3" /\ b[Len(b)] = "a9" THEN 2 ELSE 1

\* utf8.RuneCountInString
RECURSIVE RuneCountInString(_)
RuneCountInString(b) ==
    IF b = <<>> THEN 0
    ELSE 1 + RuneCountInString(SubSeq(b, DecodeRune(b) + 1, Len(b)))

\* len(string(runes[:n])) for runes := []rune(string(b)), n <= len(runes)
RECURSIVE BytesOfRunes(_, _)
BytesOfRunes(b, n) ==
    IF n = 0 THEN 0
    ELSE DecodeRune(b) + BytesOfRunes(SubSeq(b, DecodeRune(b) + 1, Len(b)), n - 1)

NewLine(data, next, prev) == [data |-> data, next |-> next, prev |-> prev]

cloneBytes(b) == b

\* growByteSlice, lines 401-408: the same bytes, in an array of the desired capacity
growByteSlice(b, desiredCap) == b

\* an insertBytes that puts the data at the end of the slice
insertBytesAtEnd(b, offset, data) == b \o data

\* insertBytes, lines 392-399: the tail moved up by len(data), the data copied in
insertBytes(b, offset, data) ==
    LET grown == growByteSlice(b, Len(b) + Len(data))
    IN  [i \in 1..(Len(b) + Len(data)) |->
            IF i <= offset THEN grown[i]
            ELSE IF i <= offset + Len(data) THEN data[i - offset]
            ELSE grown[i - Len(data)]]

\* bol, bof, eol, eof, lines 306-324
bol(e) == e.cursor.offsetBytes = 0
bof(e) == bol(e) /\ e.lines[e.cursor.line].prev = 0
eol(e) == e.cursor.offsetBytes = Len(e.lines[e.cursor.line].data)
eof(e) == eol(e) /\ e.lines[e.cursor.line].next = 0

\* adjustWindow, lines 377-384
adjustWindow(e) ==
    IF e.window.firstRune < e.cursor.offsetRunes - (e.config.Width - 1)
    THEN [e EXCEPT !.window.firstRune = e.cursor.offsetRunes - (e.config.Width - 1)]
    ELSE IF e.window.firstRune > e.cursor.offsetRunes
    THEN [e EXCEPT !.window.firstRune = e.cursor.offsetRunes]
    ELSE e

\* the text redraw hands to drawCell for a line: its bytes from firstRune on
DrawnText(e, line) ==
    IF line # 0 /\ e.window.firstRune < Len(e.lines[line].data)
    THEN SubSeq(e.lines[line].data, e.window.firstRune + 1, Len(e.lines[line].data))
    ELSE <<>>

\* redraw, lines 356-375, from the line at row y on: a row is drawn, and
\* termbox.SetCursor is called at the row of the cursor's line
RECURSIVE redrawFrom(_, _, _)
redrawFrom(e, line, y) ==
    IF ~(y - e.config.Y < e.config.Height) THEN e
    ELSE redrawFrom([e EXCEPT !.screen = Append(@, DrawnText(e, line)),
                              !.setCursor =
                                  IF line # 0 /\ line = e.cursor.line
                                  THEN [x |-> e.config.X + e.cursor.offsetRunes
                                                  - e.window.firstRune,
                                        y |-> y]
                                  ELSE @],
                    IF line # 0 THEN e.lines[line].next ELSE 0, y + 1)

redraw(e) == redrawFrom([e EXCEPT !.screen = <<>>], e.window.topLine, e.config.Y)

\* newEditor, lines 78-100
newEditor(config) ==
    redraw([config |-> config,
            lines |-> <<NewLine(config.Value, 0, 0)>>,
            cursor |-> [line |-> 1,
                        offsetRunes |-> RuneCountInString(config.Value),
                        offsetBytes |-> Len(config.Value)],
            window |-> [topLine |-> 1, firstRune |-> 0],
            firstLine |-> 1,
            lastLine |-> 1,
            linesCount |-> 1,
            setCursor |-> Nil,
            screen |-> <<>>])

\* Text, lines 169-172
Text(e) == e.lines[e.firstLine].data

\* deleteBytesAtCursor, lines 326-331
deleteBytesAtCursor(e, n) ==
    LET data == e.lines[e.cursor.line].data
    IN  [e EXCEPT !.lines[e.cursor.line].data =
            SubSeq(data, 1, e.cursor.offsetBytes)
            \o SubSeq(data, e.cursor.offsetBytes + n + 1, Len(data))]

\* insertLine, lines 333-354; the new line is the next record of the heap
insertLine(e) ==
    LET current == e.cursor.line
        new == Len(e.lines) + 1
        newLine == NewLine(cloneBytes(SubSeq(e.lines[current].data, e.cursor.offsetBytes + 1,
                                             Len(e.lines[current].data))),
                           e.lines[current].next, current)
        e1 == [e EXCEPT !.lines = Append(@, newLine)]
        e2 == [e1 EXCEPT !.lines[current].data = SubSeq(@, 1, e.cursor.offsetBytes),
                         !.lines[current].next = new]
        e3 == IF newLine.next # 0 THEN [e2 EXCEPT !.lines[newLine.next].prev = new] ELSE e2
    IN  [e3 EXCEPT !.cursor = [line |-> new, offsetRunes |-> 0, offsetBytes |-> 0],
                   !.linesCount = @ + 1]

\* insertRune, lines 176-188
insertRune(e, r) ==
    IF r = RuneNewline THEN adjustWindow(insertLine(e))
    ELSE adjustWindow([e EXCEPT !.lines[e.cursor.line].data =
                                    insertBytes(@, e.cursor.offsetBytes, r),
                                !.cursor.offsetBytes = @ + Len(r),
                                !.cursor.offsetRunes = @ + 1])

\* deleteRune, lines 192-211
deleteRune(e) ==
    LET line == e.cursor.line
    IN  IF eol(e)
        THEN IF eof(e) THEN e
             ELSE LET e1 == [e EXCEPT !.lines[line].data = @ \o e.lines[e.lines[line].next].data]
                      e2 == [e1 EXCEPT !.lines[e1.lines[line].next].prev = line]
                      e3 == [e2 EXCEPT !.lines[line].next = e2.lines[e2.lines[line].next].next]
                  IN  adjustWindow([e3 EXCEPT !.linesCount = @ - 1])
        ELSE adjustWindow(deleteBytesAtCursor(e,
                 DecodeRune(SubSeq(e.lines[line].data, e.cursor.offsetBytes + 1,
                                   Len(e.lines[line].data)))))

\* deleteRuneBackward, lines 214-238
deleteRuneBackward(e) ==
    LET line == e.cursor.line
        l == DecodeLastRune(SubSeq(e.lines[line].data, 1, e.cursor.offsetBytes))
    IN  IF bol(e)
        THEN IF bof(e) THEN e
             ELSE LET prev == e.lines[line].prev
                      e1 == [e EXCEPT !.cursor.offsetBytes = Len(e.lines[prev].data),
                                      !.cursor.offsetRunes =
                                          RuneCountInString(e.lines[prev].data)]
                      e2 == [e1 EXCEPT !.lines[prev].data = @ \o e1.lines[line].data]
                      e3 == [e2 EXCEPT !.lines[e2.lines[line].prev].next = e2.lines[line].next]
                      e4 == IF e3.lines[line].next # 0
                            THEN [e3 EXCEPT !.lines[e3.lines[line].next].prev =
                                                e3.lines[line].prev]
                            ELSE e3
                  IN  adjustWindow([e4 EXCEPT !.cursor.line = e4.lines[line].prev,
                                              !.linesCount = @ - 1])
        ELSE adjustWindow(deleteBytesAtCursor(
                 [e EXCEPT !.cursor.offsetBytes = @ - l, !.cursor.offsetRunes = @ - 1], l))

\* moveCursorForward, lines 240-256
moveCursorForward(e) ==
    LET line == e.cursor.line
    IN  IF eol(e)
        THEN IF e.lines[line].next = 0 THEN e
             ELSE adjustWindow([e EXCEPT !.cursor = [line |-> e.lines[line].next,
                                                     offsetBytes |-> 0, offsetRunes |-> 0]])
        ELSE adjustWindow([e EXCEPT
                 !.cursor.offsetBytes =
                     @ + DecodeRune(SubSeq(e.lines[line].data, e.cursor.offsetBytes + 1,
                                           Len(e.lines[line].data))),
                 !.cursor.offsetRunes = @ + 1])

\* moveCursorBackward, lines 258-274
moveCursorBackward(e) ==
    LET line == e.cursor.line
    IN  IF bol(e)
        THEN IF e.lines[line].prev = 0 THEN e
             ELSE adjustWindow([e EXCEPT !.cursor =
                      [line |-> e.lines[line].prev,
                       offsetBytes |-> Len(e.lines[e.lines[line].prev].data),
                       offsetRunes |-> RuneCountInString(e.lines[e.lines[line].prev].data)]])
        ELSE adjustWindow([e EXCEPT
                 !.cursor.offsetBytes =
                     @ - DecodeLastRune(SubSeq(e.lines[line].data, 1, e.cursor.offsetBytes)),
                 !.cursor.offsetRunes = @ - 1])

\* the cursor moved to the line to, keeping its column if the line is long enough
CursorOnLine(e, to) ==
    LET runesLen == RuneCountInString(e.lines[to].data)
        offsetRunes == IF runesLen < e.cursor.offsetRunes THEN runesLen
                       ELSE e.cursor.offsetRunes
    IN  adjustWindow([e EXCEPT !.cursor =
            [line |-> to,
             offsetBytes |-> BytesOfRunes(e.lines[to].data, offsetRunes),
             offsetRunes |-> offsetRunes]])

\* moveCursorNextLine, lines 276-289, and moveCursorPrevLine, lines 291-304
moveCursorNextLine(e) ==
    IF e.lines[e.cursor.line].next = 0 THEN e
    ELSE CursorOnLine(e, e.lines[e.cursor.line].next)

moveCursorPrevLine(e) ==
    IF e.lines[e.cursor.line].prev = 0 THEN e
    ELSE CursorOnLine(e, e.lines[e.cursor.line].prev)

\* a key event: a key with no character, or a character with no key
NoCh == <<>>
KeyOf(key) == [Key |-> key, Ch |-> NoCh]
ChOf(r) == [Key |-> "none", Ch |-> r]

\* what OnKey returns, and the editor it leaves
Handled(e, stop) == [e |-> e, stop |-> stop]

\* OnKey after its switch, lines 160-166
Switched_(e, ev) ==
    Handled(redraw(IF ev.Ch # NoCh THEN insertRune(e, ev.Ch) ELSE e), FALSE)

\* OnKey, lines 102-167; KeyEnd stands for the keys whose case is empty, and
\* KeySpace for KeyTab as well, which inserts a tab as KeySpace inserts a space
OnKey(e, ev) ==
    CASE ev.Key = "KeyArrowRight" -> Switched_(moveCursorForward(e), ev)
      [] ev.Key = "KeyArrowLeft" -> Switched_(moveCursorBackward(e), ev)
      [] ev.Key = "KeyArrowDown" -> Switched_(moveCursorNextLine(e), ev)
      [] ev.Key = "KeyArrowUp" -> Switched_(moveCursorPrevLine(e), ev)
      [] ev.Key = "KeySpace" -> Switched_(insertRune(e, RuneSpace), ev)
      [] ev.Key = "KeyEnter" ->
            IF e.config.MaxLines <= 1 THEN Handled(e, TRUE)
            ELSE IF e.linesCount < e.config.MaxLines
            THEN Switched_(insertRune(e, RuneNewline), ev)
            ELSE Switched_(e, ev)
      [] ev.Key = "KeyBackspace" -> Switched_(deleteRuneBackward(e), ev)
      [] ev.Key = "KeyDelete" -> Switched_(deleteRune(e), ev)
      [] ev.Key = "KeyEsc" -> Handled(e, TRUE)
      [] OTHER -> Switched_(e, ev)

\* the call of enterEditorMode: its editor, whether it has returned, and what
Editing(e) == [e |-> e, returned |-> FALSE, text |-> <<>>, err |-> Nil]

\* enterEditorMode, lines 17-31, one turn of its loop on a key event
KeyRead(call, ev, h) ==
    IF h.stop THEN [e |-> h.e, returned |-> TRUE, text |-> Text(h.e), err |-> Nil]
    ELSE [call EXCEPT !.e = h.e]

\* the bytes of all the lines of the heap
RECURSIVE BytesFrom(_, _)
BytesFrom(lines, i) == IF i > Len(lines) THEN 0 ELSE Len(lines[i].data) + BytesFrom(lines, i + 1)

\* the lines an editor has allocated and the bytes they hold
Memory(e) == Len(e.lines) + BytesFrom(e.lines, 1)

TextAE == RuneA \o RuneE

\* the configurations of the calls: single-line editors, and a multi-line one
Configs ==
    { [X |-> 0, Y |-> 0, Width |-> w, Height |-> 2, MaxLines |-> m, Value |-> v] :
         w \in {1, 2}, m \in {0, 1}, v \in {<<>>, TextAE} }
    \cup { [X |-> 0, Y |-> 0, Width |-> 2, Height |-> 2, MaxLines |-> 3, Value |-> <<>>] }

InitEditor ==
    /\ InitFormulaIdle
    /\ InitRoundTripIdle
    /\ InitContextIdle
    /\ failing = {}
    /\ cells = << >>
    /\ panicked = ""
    /\ doc = Nil
    /\ \E config \in Configs : ed = Editing(newEditor(config))
    /\ last = [op |-> "newEditor", ev |-> Nil]

\* one turn of the loop of enterEditorMode on the key event ev
Pressed(ev) ==
    /\ ed' = KeyRead(ed, ev, OnKey(ed.e, ev))
    /\ last' = [op |-> "OnKey", ev |-> ev]
    /\ UNCHANGED <<formulaVars, roundVars, visitedCells, failing, cells, panicked, doc>>

KeyMove ==
    /\ ~ed.returned
    /\ \E key \in {"KeyArrowRight", "KeyArrowLeft", "KeyArrowDown", "KeyArrowUp", "KeyEnd"} :
           Pressed(KeyOf(key))

KeyDeletes ==
    /\ ~ed.returned
    /\ 1 - ed.e.linesCount < MaxUncounted
    /\ \E key \in {"KeyBackspace", "KeyDelete"} : Pressed(KeyOf(key))

KeyEnter ==
    /\ ~ed.returned
    /\ Memory(ed.e) < MaxMemory
    /\ Pressed(KeyOf("KeyEnter"))

KeyEsc ==
    /\ ~ed.returned
    /\ Pressed(KeyOf("KeyEsc"))

KeyRune ==
    /\ ~ed.returned
    /\ Memory(ed.e) < MaxMemory
    /\ \/ Pressed(KeyOf("KeySpace"))
       \/ \E r \in {RuneA, RuneE} : Pressed(ChOf(r))

\* ReadKey returns an error, or an event that is no key event, lines 19-21 and 27-29
ReadFails ==
    /\ ~ed.returned
    /\ ed' = [ed EXCEPT !.returned = TRUE, !.text = <<>>, !.err = NewError("unknown event")]
    /\ last' = [op |-> "ReadKey", ev |-> Nil]
    /\ UNCHANGED <<formulaVars, roundVars, visitedCells, failing, cells, panicked, doc>>

NextEditor == KeyMove \/ KeyDeletes \/ KeyEnter \/ KeyEsc \/ KeyRune \/ ReadFails

SpecEditor == InitEditor /\ [][NextEditor]_vars

\* the calls of enterEditorMode for a single-line editor
InitLineEditor == InitEditor /\ ed.e.config.MaxLines <= 1

SpecLineEditor == InitLineEditor /\ [][NextEditor]_vars

(***************************************************************************)
(* The commands of the application (package app) that act on the list of   *)
(* sheets.  A *sheet.Sheet is a record of its allocation number and its    *)
(* title; a command line is the list of words strings.Split cuts it into.  *)
(***************************************************************************)
\* sheet.New(title), as the n-th sheet made
NewSheet(n, title) == [id |-> n, Title |-> title]

\* fmt.Sprintf("Sheet %d", n)
SheetTitle(n) ==
    <<"Sheet 1", "Sheet 2", "Sheet 3", "Sheet 4", "Sheet 5", "Sheet 6", "Sheet 7">>[n]

\* parseArgs, lines 94-98
parseArgs(cmd) == [c |-> Head(cmd), args |-> Tail(cmd)]

\* argN and arg1, lines 80-90
argN(arguments, n) == IF Len(arguments) >= n THEN arguments[n] ELSE ""
arg1(arguments) == argN(arguments, 1)

\* cmdNewSheet, lines 58-66; made counts the sheets made so far
cmdNewSheet(d, title) ==
    [d EXCEPT !.Sheets = Append(@, NewSheet(d.made + 1,
                                    IF title = "" THEN SheetTitle(Len(d.Sheets) + 1)
                                    ELSE title)),
              !.made = @ + 1]

\* a cmdNextSheet that moves the number and not the pointer
cmdNextSheetNumberOnly(d) ==
    [d EXCEPT !.CurrentSheetN = IF @ + 1 >= Len(d.Sheets) THEN 0 ELSE @ + 1]

\* cmdNextSheet, lines 70-77; Sheets[n] of the code is Sheets[n + 1] here
cmdNextSheet(d) ==
    LET n == IF d.CurrentSheetN + 1 >= Len(d.Sheets) THEN 0 ELSE d.CurrentSheetN + 1
    IN  [d EXCEPT !.CurrentSheetN = n, !.CurrentSheet = d.Sheets[n + 1]]

\* processCommand, lines 15-34: the document it leaves, whether it asks to
\* quit, and the status it shows
processCommand(d, cmd) ==
    LET p == parseArgs(cmd)
    IN  CASE p.c \in {"q", "quit"} -> [doc |-> d, quit |-> TRUE, status |-> ""]
          [] p.c \in {"as", "appendSheet"} ->
                [doc |-> cmdNewSheet(d, arg1(p.args)), quit |-> FALSE, status |-> ""]
          [] p.c \in {"ns", "nextSheet"} ->
                [doc |-> cmdNextSheet(d), quit |-> FALSE, status |-> ""]
          [] OTHER -> [doc |-> d, quit |-> FALSE, status |-> "unknown command"]

\* a document of n sheets with default titles, the k-th of them current
Document(n, k) ==
    LET sheets == [i \in 1..n |-> NewSheet(i, SheetTitle(i))]
    IN  [Sheets |-> sheets, CurrentSheetN |-> k, CurrentSheet |-> sheets[k + 1], made |-> n]

InitApp ==
    /\ InitFormulaIdle
    /\ InitRoundTripIdle
    /\ InitContextIdle
    /\ failing = {}
    /\ cells = << >>
    /\ panicked = ""
    /\ ed = Nil
    /\ \E n \in 1..2 : \E k \in 0..(n - 1) : doc = Document(n, k)
    /\ last = [op |-> "NewDocument", c |-> <<>>, quit |-> FALSE, status |-> ""]

\* processCommand called with the command line cmd
Command(cmd) ==
    LET done == processCommand(doc, cmd)
    IN  /\ doc' = done.doc
        /\ last' = [op |-> "processCommand", c |-> cmd, quit |-> done.quit,
                    status |-> done.status]
        /\ UNCHANGED <<formulaVars, roundVars, visitedCells, failing, cells, panicked, ed>>

CommandNextSheet ==
    /\ ~last.quit
    /\ \E c \in {"ns", "nextSheet"} : Command(<<c>>)

CommandAppendSheet ==
    /\ ~last.quit
    /\ Len(doc.Sheets) < MaxSheets
    /\ \E cmd \in {<<"as">>, <<"appendSheet">>, <<"as", "x">>, <<"appendSheet", "x", "y">>} :
           Command(cmd)

\* quit, a command that is not known, and the empty command line
CommandOther ==
    /\ ~last.quit
    /\ \E cmd \in {<<"q">>, <<"quit">>, <<"sheets">>, <<"">>} : Command(cmd)

NextApp == CommandNextSheet \/ CommandAppendSheet \/ CommandOther

SpecApp == InitApp /\ [][NextApp]_vars

(***************************************************************************)
(* Properties of the compiler (SpecFormula).                               *)
(***************************************************************************)
\* the cell of the printed tokens ending at token i (a Cell token), with its sheet
OutputCellAt(out, i) ==
    CellNode(IF i > 2 /\ out[i - 2].t = OutputTypeSheet
             THEN [sheet |-> out[i - 2].s] ELSE Nil,
             out[i].s)

\* the references of a printed formula, left to right: a Cell token opens a
\* reference unless a ":" precedes it, and then it closes the one before
RECURSIVE SourceRefs(_, _, _)
SourceRefs(out, i, refs) ==
    IF i > Len(out) THEN refs
    ELSE IF out[i].t # OutputTypeCell THEN SourceRefs(out, i + 1, refs)
    ELSE IF \E j \in {i - 1, i - 3} :
                /\ j >= 1
                /\ out[j].s = <<":">>
                /\ \A h \in (j + 1)..(i - 1) : out[h].t # OutputTypeCell
    THEN SourceRefs(out, i + 1,
                    [refs EXCEPT ![Len(refs)] = [@ EXCEPT !.CellTo = OutputCellAt(out, i)]])
    ELSE SourceRefs(out, i + 1,
                    Append(refs, [Cell |-> OutputCellAt(out, i), CellTo |-> Nil]))

\* C1: once compiled, the variable bin lists the formula's references in the
\* left-to-right order of its source text, and the consumed count returned by the
\* top-level buildFuncFromEquality is the length of the bin, which is the number of
\* reference leaves (literal leaves add nothing)
C1_VarBinInSourceOrder ==
    pc # "parsed" =>
        /\ vb.Vars = SourceRefs(ExpressionOutput(expression), 1, <<>>)
        /\ consumed = Len(vb.Vars)

C1_Witness ==
    /\ pc = "built"
    /\ function.k = "call"
    /\ Len(vb.Vars) = 3
    /\ vb.Vars[1] # vb.Vars[2]
    /\ \E i \in 1..Len(function.subFuncs) : function.subFuncs[i].k = "binary"

\* C2: invoked with one value per variable, the evaluator never slices out of
\* range, the k-th value read by a reference leaf is slot k of the array, and an
\* invocation that returns a value has read every slot exactly once
C2_LeafReadsItsSlot ==
    pc = "called" =>
        /\ result.panic = ""
        /\ Len(result.reads) <= Len(args)
        /\ \A k \in 1..Len(result.reads) : result.reads[k] = args[k]
        /\ result.err = Nil => result.reads = args

C2_Witness ==
    /\ pc = "called"
    /\ result.err = Nil
    /\ Len(args) = 3
    /\ function.k = "binary"
    /\ function.consumedArgs1 = 2
    /\ result.reads = args

(***************************************************************************)
(* Properties of the sheet cell (SpecSheet).                               *)
(***************************************************************************)
Typed(c) == c.valueType # CellValueUntyped

\* C3: type inference gives "" the type empty, a text that starts with "=" and
\* is longer than 1 the type formula, "TRUE" the boolean true, "1" the integer
\* 1, "1.5" the decimal 1.5 and "hello" the type text.
C3_TypeInferencePriority ==
    \A name \in DOMAIN cells :
        LET c == cells[name]
            raw == c.rawValue
        IN  Typed(c) =>
                /\ raw = <<>> => c.valueType = CellValueTypeEmpty
                /\ (Len(raw) > 1 /\ raw[1] = "=") => c.valueType = CellValueTypeFormula
                /\ raw = TextTRUE => c.valueType = CellValueTypeBool /\ c.boolValue
                /\ raw = <<"1">> => c.valueType = CellValueTypeInteger /\ c.intValue = 1
                /\ raw = <<"1", ".", "5">> =>
                        /\ c.valueType = CellValueTypeDecimal
                        /\ c.decimalValue = [dec |-> Normalise(15, -1)]
                /\ raw = TextHello => c.valueType = CellValueTypeText

\* C4: an accessor leaves its cell typed, and an accessor called on a typed
\* cell runs no type inference, no formula parsing and no MakeLink for it.
C4_TypeCachedAfterRead ==
    [][last'.op \in Accessors =>
            /\ Typed(cells'[last'.cell])
            /\ Typed(cells[last'.cell]) =>
                    \A i \in 1..Len(last'.log) : last'.log[i].cell # last'.cell]_vars

C4_Witness ==
    /\ last.op \in Accessors
    /\ last.panic = ""
    /\ last.log = <<>>
    /\ cells[last.cell].valueType = CellValueTypeFormula
    /\ cells[last.cell].args # Nil
    /\ cells[last.cell].args.elems # <<>>

\* what the four accessors return on the cell name of the sheet sh
ReadsOf(sh, name) ==
    [kind \in Accessors |->
        LET o == Accessor(kind, sh, name, {}, <<>>)
        IN  [val |-> o.val, err |-> o.err, panic |-> o.panic]]

\* C5: after EraseValue and then SetValueUntyped(t) the accessors of a cell
\* return what they return on NewCellUntyped(t) in the same sheet.
C5_EraseThenSetIsFresh ==
    (last.op = "SetValueUntyped" /\ last.afterErase) =>
        ReadsOf(cells, last.cell)
            = ReadsOf([cells EXCEPT ![last.cell] = NewCellUntyped(cells[last.cell].rawValue)],
                      last.cell)

C5_Witness ==
    /\ last.op = "SetValueUntyped"
    /\ last.afterErase
    /\ cells[last.cell].rawValue = TextHello
    /\ cells[last.cell].args # Nil
    /\ cells[last.cell].args.elems # <<>>

\* C6: SetValueUntyped(v) leaves the cell untyped with no error, rawValue v and
\* every payload field, the formula arguments included, at its initial value;
\* EraseValue leaves the cell equal to NewCellEmpty().
C6_SetAndEraseResetEveryField ==
    /\ last.op = "SetValueUntyped" =>
            cells[last.cell] = [ZeroCell EXCEPT !.valueType = CellValueUntyped,
                                                !.rawValue = cells[last.cell].rawValue]
    /\ last.op = "EraseValue" => cells[last.cell] = NewCellEmpty

FailsToParse(raw) == Len(raw) > 1 /\ raw[1] = "=" /\ ParseString(raw).err # Nil

\* C7: a read of a cell whose text starts with "=" and fails to lex or parse
\* leaves it in the formula-error state with its text and no evaluator, and
\* returns without a crash.
C7_FormulaErrorReadsReturn ==
    (last.op \in Accessors /\ FailsToParse(cells[last.cell].rawValue)) =>
        /\ cells[last.cell].errorType = CellErrorTypeFormulaError
        /\ cells[last.cell].formulaValue = NilFunc
        /\ last.panic = ""

\* C8: StringValue of a formula cell with a reference the registry cannot
\* resolve returns the raw text or an error, and does not crash.
C8_UnresolvedReferenceStringValueReturns ==
    (last.op = "StringValue" /\ cells[last.cell].errorType = CellErrorTypeRefError) =>
        /\ last.panic = ""
        /\ last.val = NewStringValue(cells[last.cell].rawValue) \/ last.err # Nil

\* C9: a cell in the reference-error state holds no evaluator.
C9_RefErrorDiscardsEvaluator ==
    \A name \in DOMAIN cells :
        cells[name].errorType = CellErrorTypeRefError => cells[name].formulaValue = NilFunc

\* C10: with A1 = "=B1" and B1 = "=A1" a read of either cell enters no cell
\* twice in one evaluation chain, and terminates.
C10_MutualReferenceTerminates ==
    ( /\ last.op \in Accessors
      /\ DOMAIN cells = CellNames
      /\ cells[TextA1].rawValue = <<"=">> \o TextB1
      /\ cells[TextB1].rawValue = <<"=">> \o TextA1 ) =>
        last.panic # "stack overflow"

(***************************************************************************)
(* Properties of the round trip (SpecRoundTrip).                           *)
(***************************************************************************)
\* C11: the text Expression.String prints of an Expression parses again, and
\* the Function of the parsed text returns, on the same reference bindings,
\* what the Function of the Expression returns
C11_PrintedTextParsesToTheSameValue ==
    pc = "reparsed" =>
        /\ reparsed.err = Nil
        /\ reparsed.result.val = result.val
        /\ reparsed.result.err = result.err

(***************************************************************************)
(* More properties of the sheet cell (SpecSheet).                          *)
(***************************************************************************)
\* a cell of the integer or of the decimal type that holds n
IntegerCell(n) == [ZeroCell EXCEPT !.valueType = CellValueTypeInteger, !.intValue = n]
DecimalCell(n) ==
    [ZeroCell EXCEPT !.valueType = CellValueTypeDecimal,
                     !.decimalValue = [dec |-> Normalise(n, 0)]]

\* C12: DecimalValue of a boolean cell and BoolValue of a text cell return a
\* cast error; of an empty cell DecimalValue returns zero and BoolValue false,
\* with no error; BoolValue of an integer or decimal cell returns whether the
\* number is not zero, and of a boolean cell the stored boolean
C12_CoercionByCellType ==
    /\ last.op \in {"BoolValue", "DecimalValue"} /\ last.panic = "" =>
         LET c == cells[last.cell]
             t == c.valueType
         IN  /\ last.op = "DecimalValue" /\ t = CellValueTypeBool =>
                   /\ last.err = NewError("unable to cast bool to decimal")
                   /\ last.val = NewDecimalValue(Normalise(0, 0))
             /\ last.op = "BoolValue" /\ t = CellValueTypeText =>
                   /\ last.err = NewError("unable to cast text to bool")
                   /\ last.val = NewBoolValue(FALSE)
             /\ t = CellValueTypeEmpty =>
                   /\ last.err = Nil
                   /\ last.val = IF last.op = "BoolValue" THEN NewBoolValue(FALSE)
                                 ELSE NewDecimalValue(Normalise(0, 0))
             /\ last.op = "BoolValue" /\ t = CellValueTypeDecimal =>
                   /\ last.err = Nil
                   /\ last.val = NewBoolValue(c.decimalValue.dec.m # 0)
             /\ last.op = "BoolValue" /\ t = CellValueTypeInteger =>
                   /\ last.err = Nil
                   /\ last.val = NewBoolValue(c.intValue # 0)
             /\ last.op = "BoolValue" /\ t = CellValueTypeBool =>
                   /\ last.err = Nil
                   /\ last.val = NewBoolValue(c.boolValue)
    /\ \A n \in -1..1 :
         /\ CellPayload("BoolValue", IntegerCell(n)) =
                [val |-> NewBoolValue(n # 0), err |-> Nil, panic |-> ""]
         /\ CellPayload("BoolValue", DecimalCell(n)) =
                [val |-> NewBoolValue(n # 0), err |-> Nil, panic |-> ""]

\* DecimalValue has returned its cast error of a boolean cell
C12_Witness ==
    /\ last.op = "DecimalValue"
    /\ cells[last.cell].valueType = CellValueTypeBool
    /\ last.err # Nil
    /\ last.panic = ""

\* C13: a BoolValue or DecimalValue call that returns an error on a cell that
\* was typed before the call leaves every field of that cell as it was
C13_ErrorLeavesTypedCellUnchanged ==
    [][(/\ last'.op \in {"BoolValue", "DecimalValue"}
        /\ last'.err # Nil
        /\ last'.cell \in DOMAIN cells
        /\ Typed(cells[last'.cell]))
       => cells'[last'.cell] = cells[last'.cell]]_vars

\* BoolValue has returned an error of a formula cell that an earlier call typed
C13_Witness ==
    /\ last.op = "BoolValue"
    /\ last.err # Nil
    /\ last.log = <<>>
    /\ cells[last.cell].valueType = CellValueTypeFormula
    /\ cells[last.cell].errorType = CellErrorTypeNoError

\* C14: once a cell holds a formula-parse error or a reference error, no read
\* changes the cell or types it again, whatever the registry can resolve by
\* then; its errorType changes only by SetValueUntyped or EraseValue of that
\* cell, and then to no-error
C14_ErrorStateIsTerminalForReads ==
    [][\A n \in DOMAIN cells :
          cells[n].errorType # CellErrorTypeNoError =>
             /\ last'.op \in Accessors =>
                   /\ cells'[n] = cells[n]
                   /\ \A i \in DOMAIN last'.log : last'.log[i].cell # n
             /\ cells'[n].errorType # cells[n].errorType =>
                   /\ last'.op \in {"SetValueUntyped", "EraseValue"}
                   /\ last'.cell = n
                   /\ cells'[n].errorType = CellErrorTypeNoError]_vars

\* a cell in the reference-error state has been read again, with no typing
\* call, after the cell its formula refers to was created
C14_Witness ==
    /\ last.op \in Accessors
    /\ last.panic = ""
    /\ last.log = <<>>
    /\ cells[last.cell].errorType = CellErrorTypeRefError
    /\ cells[last.cell].rawValue = TextSumThenB1
    /\ TextB1 \in DOMAIN cells

(***************************************************************************)
(* More properties of the compiler (SpecFormula).  The meaning of an       *)
(* Expression read off the AST: operands left to right, a chain nested to  *)
(* the right, and nothing evaluated after the first error.  A meaning is    *)
(* the value and error, the array slots read, and n, the number of         *)
(* reference leaves of the node.                                           *)
(***************************************************************************)
Meant(val, err, reads, n) == [val |-> val, err |-> err, reads |-> reads, n |-> n]

\* the operator op applied to the meanings of its operands, in order
Applied(op, ms) ==
    LET n == IF Len(ms) = 1 THEN ms[1].n ELSE ms[1].n + ms[2].n
    IN  IF ms[1].err # Nil THEN Meant(ZeroValue, ms[1].err, ms[1].reads, n)
        ELSE IF Len(ms) = 1
        THEN (IF op \in failing
              THEN Meant(ZeroValue, EvaluationError(op), ms[1].reads, n)
              ELSE Meant(ResultValue(op, <<ms[1].val>>), Nil, ms[1].reads, n))
        ELSE IF ms[2].err # Nil
        THEN Meant(ZeroValue, ms[2].err, ms[1].reads \o ms[2].reads, n)
        ELSE IF op \in failing
        THEN Meant(ZeroValue, EvaluationError(op), ms[1].reads \o ms[2].reads, n)
        ELSE Meant(ResultValue(op, <<ms[1].val, ms[2].val>>), Nil,
                   ms[1].reads \o ms[2].reads, n)

\* the slots left to the right operand of a node whose left operand means l
After(a, l) == SubSeq(a, l.n + 1, Len(a))

RECURSIVE MeaningOfEquality(_, _), MeaningOfComparison(_, _), MeaningOfAddition(_, _)
RECURSIVE MeaningOfMultiplication(_, _), MeaningOfUnary(_, _)
RECURSIVE MeaningOfArguments(_, _, _, _)

EqualityMeant(e, a, l) ==
    IF e.Next = Nil THEN l ELSE Applied(e.Op, <<l, MeaningOfEquality(e.Next, After(a, l))>>)
MeaningOfEquality(e, a) == EqualityMeant(e, a, MeaningOfComparison(e.Comparison, a))

ComparisonMeant(e, a, l) ==
    IF e.Next = Nil THEN l ELSE Applied(e.Op, <<l, MeaningOfComparison(e.Next, After(a, l))>>)
MeaningOfComparison(e, a) == ComparisonMeant(e, a, MeaningOfAddition(e.Addition, a))

AdditionMeant(e, a, l) ==
    IF e.Next = Nil THEN l ELSE Applied(e.Op, <<l, MeaningOfAddition(e.Next, After(a, l))>>)
MeaningOfAddition(e, a) == AdditionMeant(e, a, MeaningOfMultiplication(e.Multiplication, a))

MultiplicationMeant(e, a, l) ==
    IF e.Next = Nil THEN l
    ELSE Applied(e.Op, <<l, MeaningOfMultiplication(e.Next, After(a, l))>>)
MeaningOfMultiplication(e, a) == MultiplicationMeant(e, a, MeaningOfUnary(e.Unary, a))

\* the arguments from argument i on, done being what the earlier ones mean together
ArgumentMeant(name, es, a, i, done, m) ==
    MeaningOfArguments(name, es, After(a, m), 
                       [i |-> i + 1,
                        vals |-> Append(done.vals, m.val),
                        err |-> IF done.err # Nil THEN done.err ELSE m.err,
                        reads |-> IF done.err # Nil THEN done.reads ELSE done.reads \o m.reads,
                        n |-> done.n + m.n])
MeaningOfArguments(name, es, a, done) ==
    IF done.i > Len(es)
    THEN (IF done.err # Nil THEN Meant(ZeroValue, done.err, done.reads, done.n)
          ELSE IF name \in failing
          THEN Meant(ZeroValue, EvaluationError(name), done.reads, done.n)
          ELSE Meant(ResultValue(name, done.vals), Nil, done.reads, done.n))
    ELSE ArgumentMeant(name, es, a, done.i, done, MeaningOfEquality(es[done.i], a))

MeaningOfUnary(u, a) ==
    IF u.Primary = Nil THEN Applied(u.Op, <<MeaningOfUnary(u.Unary, a)>>)
    ELSE IF u.Primary.SubExpression # Nil THEN MeaningOfEquality(u.Primary.SubExpression, a)
    ELSE IF u.Primary.Func # Nil
    THEN MeaningOfArguments(u.Primary.Func.Name, u.Primary.Func.Arguments, a,
                            [i |-> 1, vals |-> <<>>, err |-> Nil, reads |-> <<>>, n |-> 0])
    ELSE IF u.Primary.Boolean # Nil
    THEN Meant(NewBoolValue(u.Primary.Boolean.bool), Nil, <<>>, 0)
    ELSE IF u.Primary.Number # Nil
    THEN Meant(NewDecimalValue(u.Primary.Number.num), Nil, <<>>, 0)
    ELSE IF u.Primary.String # Nil
    THEN Meant(NewStringValue(u.Primary.String.str), Nil, <<>>, 0)
    ELSE Meant(a[1], Nil, <<a[1]>>, 1)

Meaning(e, a) == MeaningOfEquality(e.Equality, a)

\* C15: an evaluator whose sub-evaluator returns an error returns that error
\* and evaluates nothing more: no operand or argument to the right of the
\* failing one is read, and no operator or function is applied
C15_FirstErrorIsReturnedAndEndsEvaluation ==
    pc = "called" =>
        LET m == Meaning(expression, args)
        IN  /\ result.panic = ""
            /\ result.err = m.err
            /\ result.reads = m.reads
            /\ result.err # Nil => result.val = ZeroValue

\* a call whose first argument failed, with a reference in its second argument
C15_Witness ==
    /\ pc = "called"
    /\ result.err = EvaluationError(GenMultiplicationOp)
    /\ expression.Equality.Comparison.Addition.Multiplication.Unary.Primary # Nil
    /\ expression.Equality.Comparison.Addition.Multiplication.Unary.Primary.Func # Nil
    /\ Len(result.reads) < Len(args)

(***************************************************************************)
(* Properties of the evaluation Context (SpecContext).                     *)
(***************************************************************************)
\* C16: Visited(r) returns true exactly when AddVisited was called with the
\* pointer r since the Context was created or last Reset; AddVisited of a
\* visited reference changes nothing, and Visited never changes the set
C16_VisitedIffAddedSinceReset ==
    [][/\ last'.op = "Visited" =>
            /\ last'.ret = (last'.r \in last'.added)
            /\ visitedCells' = visitedCells
       /\ last'.op = "AddVisited" /\ last'.r \in last.added =>
            visitedCells' = visitedCells
       /\ last'.op \in {"NewContext", "Reset"} => \A r \in Pointers : ~Visited(visitedCells', r)
      ]_vars

\* Visited has returned false for a pointer that was not added, while a
\* pointer to an equal CellRef was
C16_Witness ==
    /\ last.op = "Visited"
    /\ last.ret = FALSE
    /\ \E q \in last.added : CellRefAt(q) = CellRefAt(last.r)

(***************************************************************************)
(* Properties of the cell's evaluator and its arguments (SpecSheet).       *)
(***************************************************************************)
\* len(c.args), of a nil slice too
LenArgs(c) == IF c.args = Nil THEN 0 ELSE Len(c.args.elems)

\* C17: in every cell that has a compiled evaluator attached, the bound
\* argument array is as long as the VarBin of its formula, and no accessor
\* reaches the panic of a reference leaf called with too few arguments
C17_ArgsAsLongAsVarBin ==
    /\ \A n \in DOMAIN cells :
          cells[n].formulaValue # NilFunc =>
             LenArgs(cells[n]) = Len(Parse(cells[n].rawValue).vb.Vars)
    /\ last.panic # "too few arguments"

\* C18: at the switch of Cell.Value the valueType is empty, text, integer,
\* decimal, boolean or formula, and the panic "unsupported type" is not reached
C18_ValueSwitchIsExhaustive ==
    /\ last.panic # "unsupported type"
    /\ panicked # "unsupported type"
    /\ last.op = "Value" =>
          cells[last.cell].valueType \in
             {CellValueTypeEmpty, CellValueTypeText, CellValueTypeInteger,
              CellValueTypeDecimal, CellValueTypeBool, CellValueTypeFormula}

\* Value has typed an untyped cell and returned from the switch
C18_Witness ==
    /\ last.op = "Value"
    /\ last.panic = ""
    /\ last.log # <<>>
    /\ cells[last.cell].valueType = CellValueTypeText

\* C19: StringValue returns no error, and of a cell that holds no formula it
\* returns the stored text; no accessor changes rawValue; RawValue returns the
\* stored text, which is empty after EraseValue
C19_StringValueAndRawValueReturnTheText ==
    [][/\ last'.op = "StringValue" =>
            /\ last'.err = Nil
            /\ (last'.panic = "" /\ cells'[last'.cell].valueType # CellValueTypeFormula) =>
                  last'.val = NewStringValue(cells[last'.cell].rawValue)
       /\ last'.op \in Accessors \cup {"RawValue"} =>
            \A n \in DOMAIN cells : cells'[n].rawValue = cells[n].rawValue
       /\ last'.op = "RawValue" =>
            last'.val = NewStringValue(cells[last'.cell].rawValue)
       /\ last'.op = "EraseValue" => cells'[last'.cell].rawValue = <<>>
      ]_vars

\* StringValue has returned, with no error, of a formula cell whose evaluator
\* returned an error
C19_Witness ==
    /\ last.op = "StringValue"
    /\ last.panic = ""
    /\ last.err = Nil
    /\ cells[last.cell].rawValue = TextOnePlusTwo
    /\ failing # {}

(***************************************************************************)
(* The nesting of a chain of operators (SpecFormula).                      *)
(***************************************************************************)
\* the text =A1 op B1 op 1 compiles to the evaluator of op(A1, op(B1, 1)),
\* which reads A1 before B1
ChainNestsRight(op) ==
    LET p == Parse(<<"=">> \o TextA1 \o op \o TextB1 \o op \o <<"1">>)
        r == Call(p.f, <<SlotValue(1), SlotValue(2)>>)
    IN  /\ p.err = Nil
        /\ r.reads = <<SlotValue(1), SlotValue(2)>>
        /\ op \notin failing =>
              r.val = ResultValue(op, <<SlotValue(1),
                                        ResultValue(op, <<SlotValue(2),
                                                          NewDecimalValue(Normalise(1, 0))>>)>>)

\* C20: a chain x1 op1 x2 op2 x3 of one precedence layer is evaluated as
\* op1(x1, op2(x2, x3)), the operands read left to right: a - b - c is
\* a - (b - c) and a / b / c is a / (b / c)
C20_ChainNestsRight ==
    /\ pc = "called" /\ result.err = Nil =>
          /\ result.val = Meaning(expression, args).val
          /\ result.reads = args
    \* the two texts, under each capability: once, before the first formula is compiled
    /\ pc = "parsed" /\ expression = Formulas[1] =>
          /\ ChainNestsRight(<<"-">>)
          /\ ChainNestsRight(<<"/">>)

\* the evaluator of a chain of three references of the addition layer has returned
C20_Witness ==
    /\ pc = "called"
    /\ result.err = Nil
    /\ expression.Equality.Comparison.Addition.Next # Nil
    /\ expression.Equality.Comparison.Addition.Next.Next # Nil
    /\ Len(args) = 3
    /\ result.val =
          ResultValue(GenAdditionOp,
                      <<SlotValue(1),
                        ResultValue(GenAdditionOp, <<SlotValue(2), SlotValue(3)>>)>>)

(***************************************************************************)
(* Properties of makeLinks (SpecLinks).                                    *)
(***************************************************************************)
\* reference i of the bin is a single cell, and the registry resolves it
SingleCell(i) == vb.Vars[i].CellTo = Nil
Resolves(i) == vb.Vars[i].Cell.Sheet = Nil /\ vb.Vars[i].Cell.Cell \in DOMAIN cells

\* the first single-cell reference the registry does not resolve, or len(Vars) + 1
FirstUnresolved ==
    LET bad == {i \in 1..Len(vb.Vars) : SingleCell(i) /\ ~Resolves(i)}
    IN  IF bad = {} THEN Len(vb.Vars) + 1 ELSE CHOOSE i \in bad : \A j \in bad : i <= j

\* the single-cell references up to the first unresolved one, that one included
Asked == {i \in 1..Len(vb.Vars) : SingleCell(i) /\ i <= FirstUnresolved}

\* C21: makeLinks calls MakeLink once per single-cell reference, in the order
\* of the bin, with the reference's cell and sheet, up to the first failure;
\* with no failure it returns len(Vars) values, the link of reference i at i
\* and the zero Value at a range; on a failure it returns no values and the error
C21_makeLinksInBinOrder ==
    pc = "linked" =>
        /\ Len(result.log) = Cardinality(Asked)
        /\ \A i \in Asked :
              result.log[Cardinality({j \in Asked : j <= i})] =
                 MakeLinkCall(vb.Vars[i].Cell.Cell, vb.Vars[i].Cell.Sheet)
        /\ FirstUnresolved > Len(vb.Vars) =>
              /\ result.err = Nil
              /\ args # Nil
              /\ Len(args.elems) = Len(vb.Vars)
              /\ \A i \in 1..Len(vb.Vars) :
                    args.elems[i] = IF SingleCell(i)
                                    THEN NewLinkValue([cell |-> vb.Vars[i].Cell.Cell])
                                    ELSE ZeroValue
        /\ FirstUnresolved <= Len(vb.Vars) =>
              /\ result.err # Nil
              /\ args = Nil

\* makeLinks has stopped at the second of three references, after a range
C21_Witness ==
    /\ pc = "linked"
    /\ Len(vb.Vars) = MaxVars
    /\ ~SingleCell(1)
    /\ FirstUnresolved = 2
    /\ SingleCell(3)
    /\ Len(result.log) = 1

(***************************************************************************)
(* C22: pressing Esc in the line editor leaves it and discards the         *)
(* changes: the text enterEditorMode returns after Esc is the initial      *)
(* config.Value, whatever keys were typed before.                          *)
(***************************************************************************)
C22_EscDiscardsTheChanges ==
    (ed # Nil /\ ed.returned /\ last.op = "OnKey" /\ last.ev.Key = "KeyEsc")
        => (ed.text = ed.e.config.Value /\ ed.err = Nil)

(***************************************************************************)
(* C23: with a non-empty sheet list, after any sequence of nextSheet and   *)
(* appendSheet commands 0 <= CurrentSheetN < len(Sheets) and CurrentSheet  *)
(* is Sheets[CurrentSheetN]; nextSheet advances by one and wraps from the  *)
(* last sheet to the first, so len(Sheets) consecutive nextSheet commands  *)
(* return to the starting sheet.                                           *)
(***************************************************************************)
RECURSIVE NextSheetTimes(_, _)
NextSheetTimes(d, n) == IF n = 0 THEN d ELSE NextSheetTimes(cmdNextSheet(d), n - 1)

CurrentIsValid(d) ==
    /\ 0 <= d.CurrentSheetN
    /\ d.CurrentSheetN < Len(d.Sheets)
    /\ d.CurrentSheet = d.Sheets[d.CurrentSheetN + 1]

NextSheetStep ==
    (doc # Nil /\ last'.op = "processCommand" /\ Head(last'.c) \in {"ns", "nextSheet"})
        => /\ doc'.Sheets = doc.Sheets
           /\ doc'.CurrentSheetN = (doc.CurrentSheetN + 1) % Len(doc.Sheets)
           /\ doc'.CurrentSheet = doc.Sheets[doc'.CurrentSheetN + 1]

AppendSheetStep ==
    (doc # Nil /\ last'.op = "processCommand" /\ Head(last'.c) \in {"as", "appendSheet"})
        => /\ SubSeq(doc'.Sheets, 1, Len(doc.Sheets)) = doc.Sheets
           /\ Len(doc'.Sheets) = Len(doc.Sheets) + 1
           /\ doc'.CurrentSheetN = doc.CurrentSheetN
           /\ doc'.CurrentSheet = doc.CurrentSheet

C23_CurrentSheetStaysValidAndCycles ==
    /\ [](doc # Nil => /\ CurrentIsValid(doc)
                       /\ NextSheetTimes(doc, Len(doc.Sheets)) = doc)
    /\ [][NextSheetStep /\ AppendSheetStep]_vars

\* nextSheet has wrapped from the last sheet to the first, in a list that
\* appendSheet has grown
C23_Witness ==
    /\ doc # Nil
    /\ last.op = "processCommand"
    /\ Head(last.c) = "ns"
    /\ doc.CurrentSheetN = 0
    /\ Len(doc.Sheets) = MaxSheets
    /\ doc.CurrentSheet = doc.Sheets[1]
    /\ doc.CurrentSheet # doc.Sheets[2]

(***************************************************************************)
(* C24: the lines of the editor form a consistent doubly linked list: for  *)
(* every line l reachable from firstLine, l.next.prev is l when l.next is  *)
(* not nil and l.prev.next is l when l.prev is not nil; and linesCount is  *)
(* the number of lines reachable from firstLine.                           *)
(***************************************************************************)
\* the lines met from the line l on by following next, seen being those met before
RECURSIVE LinesFrom(_, _, _)
LinesFrom(e, l, seen) ==
    IF l = 0 \/ l \in seen THEN seen ELSE LinesFrom(e, e.lines[l].next, seen \cup {l})

Reachable(e) == LinesFrom(e, e.firstLine, {})

C24_LinesAreADoublyLinkedList ==
    (ed # Nil) =>
        /\ \A l \in Reachable(ed.e) :
              /\ ed.e.lines[l].next # 0 => ed.e.lines[ed.e.lines[l].next].prev = l
              /\ ed.e.lines[l].prev # 0 => ed.e.lines[ed.e.lines[l].prev].next = l
        /\ ed.e.linesCount = Cardinality(Reachable(ed.e))

(***************************************************************************)
(* C25: the cursor is valid after every operation: cursor.line is a line   *)
(* of the list, 0 <= offsetBytes <= len(cursor.line.data), and offsetRunes *)
(* is the number of runes of the line before offsetBytes.                  *)
(***************************************************************************)
C25_CursorIsValid ==
    (ed # Nil) =>
        /\ ed.e.cursor.line \in Reachable(ed.e)
        /\ 0 <= ed.e.cursor.offsetBytes
        /\ ed.e.cursor.offsetBytes <= Len(ed.e.lines[ed.e.cursor.line].data)
        /\ ed.e.cursor.offsetRunes =
               RuneCountInString(SubSeq(ed.e.lines[ed.e.cursor.line].data, 1,
                                        ed.e.cursor.offsetBytes))

\* the offsets alone, whichever line the cursor is on
CursorOffsetsAreValid ==
    (ed # Nil) =>
        /\ 0 <= ed.e.cursor.offsetBytes
        /\ ed.e.cursor.offsetBytes <= Len(ed.e.lines[ed.e.cursor.line].data)
        /\ ed.e.cursor.offsetRunes =
               RuneCountInString(SubSeq(ed.e.lines[ed.e.cursor.line].data, 1,
                                        ed.e.cursor.offsetBytes))

(***************************************************************************)
(* C26: Enter in single-line mode (MaxLines <= 1) stops the editing        *)
(* without changing the text; in multi-line mode Enter inserts a new line  *)
(* only while linesCount < MaxLines; so the number of lines never exceeds  *)
(* max(1, MaxLines).                                                       *)
(***************************************************************************)
EnterPressed == ed # Nil /\ ~ed.returned /\ last'.op = "OnKey" /\ last'.ev.Key = "KeyEnter"

EnterStep ==
    EnterPressed =>
        IF ed.e.config.MaxLines <= 1
        THEN ed'.returned /\ ed'.e = ed.e /\ ed'.text = Text(ed.e)
        ELSE /\ ~ed'.returned
             /\ Len(ed'.e.lines) > Len(ed.e.lines) => ed.e.linesCount < ed.e.config.MaxLines

LinesWithinMaxLines ==
    (ed # Nil) =>
        Cardinality(Reachable(ed.e)) <=
            (IF ed.e.config.MaxLines > 1 THEN ed.e.config.MaxLines ELSE 1)

C26_EnterKeepsTheLinesWithinMaxLines == [][EnterStep]_vars /\ []LinesWithinMaxLines

\* linesCount, the counter Enter compares with MaxLines, within the same bound
LinesCountWithinMaxLines ==
    (ed # Nil) =>
        ed.e.linesCount <= (IF ed.e.config.MaxLines > 1 THEN ed.e.config.MaxLines ELSE 1)

EnterStepHolds == [][EnterStep]_vars

(***************************************************************************)
(* C27: with Width >= 1, in every state in which redraw runs (newEditor    *)
(* and after each key) the cursor column is inside the window:             *)
(* window.firstRune <= cursor.offsetRunes <= window.firstRune + Width - 1. *)
(***************************************************************************)
C27_CursorColumnInsideTheWindow ==
    (ed # Nil /\ ~ed.returned /\ ed.e.config.Width >= 1) =>
        /\ ed.e.window.firstRune <= ed.e.cursor.offsetRunes
        /\ ed.e.cursor.offsetRunes <= ed.e.window.firstRune + ed.e.config.Width - 1

(***************************************************************************)
(* C28: insertRune(r) for a rune r other than the newline inserts r at the *)
(* cursor and advances the cursor by one character; a deleteRuneBackward   *)
(* that follows restores exactly the previous text and cursor position,    *)
(* for every cursor position.                                              *)
(***************************************************************************)
InsertsAtCursor(e, r, inserted) ==
    LET line == e.cursor.line
        data == e.lines[line].data
    IN  /\ inserted.lines =
               [e.lines EXCEPT ![line].data =
                    SubSeq(data, 1, e.cursor.offsetBytes) \o r
                    \o SubSeq(data, e.cursor.offsetBytes + 1, Len(data))]
        /\ inserted.cursor = [line |-> line,
                              offsetBytes |-> e.cursor.offsetBytes + Len(r),
                              offsetRunes |-> e.cursor.offsetRunes + 1]
        /\ inserted.linesCount = e.linesCount

Restores(e, restored) ==
    /\ restored.lines = e.lines
    /\ restored.cursor = e.cursor
    /\ restored.linesCount = e.linesCount

C28_DeleteBackwardUndoesInsertRune ==
    (ed # Nil) =>
        \A r \in {RuneA, RuneE, RuneSpace} :
            /\ InsertsAtCursor(ed.e, r, insertRune(ed.e, r))
            /\ Restores(ed.e, deleteRuneBackward(insertRune(ed.e, r)))

\* a two-byte rune has been typed between two characters of the line
C28_Witness ==
    /\ ed # Nil
    /\ last.op = "OnKey"
    /\ last.ev.Ch = RuneE
    /\ ed.e.cursor.offsetBytes > Len(RuneE)
    /\ ed.e.cursor.offsetBytes < Len(ed.e.lines[ed.e.cursor.line].data)
    /\ SubSeq(ed.e.lines[ed.e.cursor.line].data, ed.e.cursor.offsetBytes - 1,
              ed.e.cursor.offsetBytes) = RuneE

====
